---- MODULE Spec2Model ----
(***************************************************************************)
(* A model of the snurr BPMN engine: the diagram representation that      *)
(* diagram.rs builds, the callbacks of process/handler.rs, and the token  *)
(* scheduler of process/engine.rs and process/engine/execute_handler.rs.  *)
(* Indices are zero based, as in the source: a Vec is a function on       *)
(* 0..len-1.  Sequences (token frontiers, stacks) are TLA+ sequences.     *)
(***************************************************************************)
EXTENDS Integers, Sequences, FiniteSets, TLC

(***************************************************************************)
(* Bounds of the model.                                                    *)
(***************************************************************************)
\* Number of execute() activations that may be live at once (one per
\* top-level process run plus one per sub-process being executed).
MaxFrames == 3
\* Number of times run() is called on the built process in one behaviour.
MaxRuns == 2
\* Number of start events a process of a document has at most.
MaxStarts == 3
\* Processes of a document after the first.
MaxTops == 2
\* Calls of Handler::add_callback made after build.
MaxLate == 2

(***************************************************************************)
(* Option values.                                                          *)
(***************************************************************************)
\* Option::None of an index (func_idx, default, data_index, start).
NONE == -1
\* Option::None of a name.
NoName == "<no name>"
\* Option::None of a symbol.
NoSymbol == "<no symbol>"

Vec(seq) == [i \in 0..(Len(seq) - 1) |-> seq[i + 1]]

VecLen(v) == Cardinality(DOMAIN v)

Range(seq) == {seq[i] : i \in DOMAIN seq}

\* Every order in which the elements of a set can be enumerated.
Perms(S) ==
  {s \in [1..Cardinality(S) -> S] :
     \A i, j \in 1..Cardinality(S) : i # j => s[i] # s[j]}

(***************************************************************************)
(* Bpmn nodes (bpmn.rs is described by its uses and by the data model):    *)
(* one record shape for every variant, unused fields at their defaults.    *)
(***************************************************************************)
Node(bpmn, ty, id, name, symbol, outputs, inputs, default, func_idx, data_index, target_ref, attached_to_ref) ==
  [bpmn |-> bpmn, ty |-> ty, id |-> id, local |-> 0, name |-> name, symbol |-> symbol,
   outputs |-> outputs, inputs |-> inputs, default |-> default,
   func_idx |-> func_idx, data_index |-> data_index,
   target_ref |-> target_ref, attached_to_ref |-> attached_to_ref]

Ev(ty, id, name, symbol, outputs) ==
  Node("Event", ty, id, name, symbol, outputs, 0, NONE, NONE, NONE, NONE, NONE)

BoundaryEv(id, name, symbol, outputs, attached) ==
  Node("Event", "Boundary", id, name, symbol, outputs, 0, NONE, NONE, NONE,
       NONE, attached)

Act(ty, id, name, outputs, func_idx) ==
  Node("Activity", ty, id, name, NoSymbol, outputs, 0, NONE, func_idx, NONE,
       NONE, NONE)

SubProc(id, name, outputs, data_index) ==
  Node("Activity", "SubProcess", id, name, NoSymbol, outputs, 0, NONE, NONE,
       data_index, NONE, NONE)

Gw(ty, id, name, outputs, inputs, default, func_idx) ==
  Node("Gateway", ty, id, name, NoSymbol, outputs, inputs, default, func_idx,
       NONE, NONE, NONE)

Sf(id, name, target_ref) ==
  Node("SequenceFlow", "", id, name, NoSymbol, <<>>, 0, NONE, NONE, NONE,
       target_ref, NONE)

Proc(id, data_index) ==
  Node("Process", "", id, NoName, NoSymbol, <<>>, 0, NONE, NONE, data_index,
       NONE, NONE)

TaskTypes ==
  {"Task", "ScriptTask", "UserTask", "ServiceTask", "CallActivity",
   "ReceiveTask", "SendTask", "ManualTask", "BusinessRuleTask"}

\* Variant (not the code): Terminate routes to a boundary as well.
InterruptingSymbols_with_terminate ==
  {"Cancel", "Compensation", "Conditional", "Error", "Escalation", "Message",
   "Signal", "Timer", "Terminate"}

\* The end symbols of a sub-process that route to a boundary of the activity.
InterruptingSymbols ==
  {"Cancel", "Compensation", "Conditional", "Error", "Escalation", "Message",
   "Signal", "Timer"}

(***************************************************************************)
(* ProcessData, as finalize leaves it.                                     *)
(***************************************************************************)
\* ProcessData::add sets start to the index of the none-symbol start event.
StartOf(nodes) ==
  LET S == {i \in DOMAIN nodes :
              /\ nodes[i].bpmn = "Event"
              /\ nodes[i].ty = "Start"
              /\ nodes[i].symbol = NoSymbol}
  IN IF S = {} THEN NONE ELSE CHOOSE i \in S : \A j \in S : i >= j

\* finalize: boundaries[activity] lists the boundary events attached to it,
\* in node order.
RECURSIVE BoundariesUpTo(_, _, _)
BoundariesUpTo(nodes, a, n) ==
  IF n = 0 THEN <<>>
  ELSE LET rest == BoundariesUpTo(nodes, a, n - 1)
           b == nodes[n - 1]
       IN IF b.bpmn = "Event" /\ b.attached_to_ref = a
          THEN Append(rest, n - 1)
          ELSE rest

\* finalize: catch_event_links[name] is the IntermediateCatch Link event of
\* that name (the last one inserted wins).
CatchEventLinks(nodes) ==
  LET C == {i \in DOMAIN nodes :
              /\ nodes[i].bpmn = "Event"
              /\ nodes[i].ty = "IntermediateCatch"
              /\ nodes[i].symbol = "Link"
              /\ nodes[i].name # NoName}
      names == {nodes[i].name : i \in C}
  IN [nm \in names |->
        CHOOSE i \in C : /\ nodes[i].name = nm
                         /\ \A j \in C : nodes[j].name = nm => i >= j]

\* ProcessData::add gives each node its index as local id.
ProcessData(seq) ==
  LET nodes == [i \in 0..(Len(seq) - 1) |-> [seq[i + 1] EXCEPT !.local = i]]
      acts == {nodes[i].attached_to_ref : i \in DOMAIN nodes} \ {NONE}
  IN [start |-> StartOf(nodes),
      data |-> nodes,
      boundaries |-> [a \in acts |-> BoundariesUpTo(nodes, a, VecLen(nodes))],
      catch_event_links |-> CatchEventLinks(nodes)]

(***************************************************************************)
(* Callbacks (process/handler.rs, api.rs).  A callback is described by     *)
(* what it does to the user data and by what it returns.                   *)
(***************************************************************************)
Fields == {"count", "n", "a", "b", "c", "x"}

ZeroData == [f \in Fields |-> 0]

\* api.rs Boundary: Symbol(symbol) has no name, NameSymbol(name, symbol).
NoBoundary == [name |-> NoName, symbol |-> NoSymbol]
BoundarySymbol(symbol) == [name |-> NoName, symbol |-> symbol]
BoundaryNameSymbol(name, symbol) == [name |-> name, symbol |-> symbol]

\* api.rs With.
WithDefault == [w |-> "Default", vs |-> <<>>]
WithFlow(v) == [w |-> "Flow", vs |-> <<v>>]
WithFork(vs) == [w |-> "Fork", vs |-> vs]

Callback(kind, op, field, val, ret, yes, no, with) ==
  [kind |-> kind, op |-> op, field |-> field, val |-> val, ret |-> ret,
   yes |-> yes, no |-> no, with |-> with]

\* A task callback: data.field += 1, returning ret.
TaskInc(field, ret) ==
  Callback("Task", "inc", field, 0, ret, NoName, NoName, WithDefault)

\* A task callback: data.field = val, returning ret.
TaskSet(field, val, ret) ==
  Callback("Task", "set", field, val, ret, NoName, NoName, WithDefault)

\* An exclusive callback: yes if data.field = val, otherwise no.
ExclusiveEq(field, val, yes, no) ==
  Callback("Exclusive", "nop", field, val, NoBoundary, yes, no, WithDefault)

\* An inclusive callback returning with.
InclusiveRet(with) ==
  Callback("Inclusive", "nop", "x", 0, NoBoundary, NoName, NoName, with)

\* The user data after the callback has run.
CallbackData(cb, data) ==
  CASE cb.op = "inc" -> [data EXCEPT ![cb.field] = @ + 1]
    [] cb.op = "set" -> [data EXCEPT ![cb.field] = cb.val]
    [] OTHER -> data

ExclusiveResult_swapped(cb, data) ==
  IF data[cb.field] = cb.val THEN cb.no ELSE cb.yes

\* The value an exclusive callback returns (NoName: Option::None).
ExclusiveResult(cb, data) ==
  IF data[cb.field] = cb.val THEN cb.yes ELSE cb.no

\* An event based callback returning IntermediateEvent(name, symbol).
EventBasedRet(name, symbol) ==
  Callback("EventBased", "nop", "x", 0, [name |-> name, symbol |-> symbol], NoName, NoName, WithDefault)

(***************************************************************************)
(* Lookups of diagram.rs.                                                  *)
(***************************************************************************)
\* The first element of seq among those at the positions I, or NONE.
FirstMatch(seq, I) ==
  IF I = {} THEN NONE ELSE seq[CHOOSE i \in I : \A j \in I : i <= j]

\* Diagram::get_process
get_process(diagram, index) ==
  IF index \in DOMAIN diagram THEN index ELSE NONE

find_boundary_by_symbol(pd, activity_id, search_name, search_symbol) ==
  IF activity_id \notin DOMAIN pd.boundaries THEN NONE
  ELSE LET Match(index) ==
             /\ index \in DOMAIN pd.data
             /\ pd.data[index].bpmn = "Event"
             /\ pd.data[index].symbol # NoSymbol
             /\ pd.data[index].symbol = search_symbol
       IN FirstMatch(pd.boundaries[activity_id],
                     {i \in DOMAIN pd.boundaries[activity_id] : Match(pd.boundaries[activity_id][i])})

\* ProcessData::find_boundary: the first boundary event attached to the
\* activity whose symbol is set and equal to the one searched and whose
\* optional name equals the optional name searched.
find_boundary(pd, activity_id, search_name, search_symbol) ==
  IF activity_id \notin DOMAIN pd.boundaries THEN NONE
  ELSE LET Match(index) ==
             /\ index \in DOMAIN pd.data
             /\ pd.data[index].bpmn = "Event"
             /\ pd.data[index].symbol # NoSymbol
             /\ pd.data[index].symbol = search_symbol
             /\ pd.data[index].name = search_name
       IN FirstMatch(pd.boundaries[activity_id],
                     {i \in DOMAIN pd.boundaries[activity_id] : Match(pd.boundaries[activity_id][i])})

\* ProcessData::catch_event_link
catch_event_link(pd, throw_event_name) ==
  IF throw_event_name \in DOMAIN pd.catch_event_links
  THEN pd.catch_event_links[throw_event_name]
  ELSE NONE

\* find_by_name_or_id that looks at the names of the flows only.
find_by_name_only(pd, search, outputs) ==
  LET Match(index) ==
        /\ index \in DOMAIN pd.data
        /\ pd.data[index].bpmn = "SequenceFlow"
        /\ pd.data[index].name # NoName
        /\ pd.data[index].name = search
  IN FirstMatch(outputs, {i \in DOMAIN outputs : Match(outputs[i])})

\* ProcessData::find_by_name_or_id: the first output that is a sequence flow
\* whose name or bpmn id equals the value searched.
find_by_name_or_id(pd, search, outputs) ==
  LET Match(index) ==
        /\ index \in DOMAIN pd.data
        /\ pd.data[index].bpmn = "SequenceFlow"
        /\ \/ (pd.data[index].name # NoName /\ pd.data[index].name = search)
           \/ pd.data[index].id = search
  IN FirstMatch(outputs, {i \in DOMAIN outputs : Match(outputs[i])})

\* find_by_intermediate_event that takes an event of any symbol.
find_by_intermediate_event_any_symbol(pd, search, outputs) ==
  LET Match(index) ==
        /\ index \in DOMAIN pd.data
        /\ pd.data[index].bpmn = "SequenceFlow"
        /\ pd.data[index].target_ref \in DOMAIN pd.data
        /\ LET bpmn == pd.data[pd.data[index].target_ref]
           IN \/ /\ bpmn.bpmn = "Activity"
                 /\ bpmn.ty = "ReceiveTask"
                 /\ bpmn.name # NoName
                 /\ search.symbol = "Message"
                 /\ bpmn.name = search.name
              \/ /\ bpmn.bpmn = "Event"
                 /\ bpmn.name # NoName
                 /\ bpmn.symbol = search.symbol
                 /\ bpmn.name = search.name
  IN FirstMatch(outputs, {i \in DOMAIN outputs : Match(outputs[i])})

\* ProcessData::find_by_intermediate_event: the first output whose sequence
\* flow targets a ReceiveTask of that name (symbol Message) or an event of
\* that name and symbol (Message, Signal, Timer, Conditional).
find_by_intermediate_event(pd, search, outputs) ==
  LET Match(index) ==
        /\ index \in DOMAIN pd.data
        /\ pd.data[index].bpmn = "SequenceFlow"
        /\ pd.data[index].target_ref \in DOMAIN pd.data
        /\ LET bpmn == pd.data[pd.data[index].target_ref]
           IN \/ /\ bpmn.bpmn = "Activity"
                 /\ bpmn.ty = "ReceiveTask"
                 /\ bpmn.name # NoName
                 /\ search.symbol = "Message"
                 /\ bpmn.name = search.name
              \/ /\ bpmn.bpmn = "Event"
                 /\ bpmn.symbol \in {"Message", "Signal", "Timer", "Conditional"}
                 /\ bpmn.name # NoName
                 /\ bpmn.symbol = search.symbol
                 /\ bpmn.name = search.name
  IN FirstMatch(outputs, {i \in DOMAIN outputs : Match(outputs[i])})

\* Gateway::default_path: the default flow, or NONE (MissingDefault).
default_path(gateway) == gateway.default

(***************************************************************************)
(* What one pass of the loop of flow does with the node a token is on.     *)
(***************************************************************************)
\* The values flow returns, and the error of a failed flow.
NoReturn == [t |-> "", ids |-> <<>>, node |-> NONE, err |-> ""]
ReturnFork(ids) == [t |-> "Fork", ids |-> ids, node |-> NONE, err |-> ""]
ReturnJoin(gateway) == [t |-> "Join", ids |-> <<>>, node |-> gateway, err |-> ""]
ReturnEnd(event) == [t |-> "End", ids |-> <<>>, node |-> event, err |-> ""]
ReturnErr(err) == [t |-> "Err", ids |-> <<>>, node |-> NONE, err |-> err]

\* The token moves on to node id; flow returns res; flow calls execute on
\* the process data at id.  cb is the callback that was run, or NONE.
Goto(id, cb) == [k |-> "goto", id |-> id, cb |-> cb, res |-> NoReturn]
Ret(res, cb) == [k |-> "ret", id |-> NONE, cb |-> cb, res |-> res]
CallExecute(id) == [k |-> "sub", id |-> id, cb |-> NONE, res |-> NoReturn]

\* maybe_fork! that never forks: the first output is followed.
maybe_fork_first(outputs, cb) ==
  IF Len(outputs) = 0
  THEN Ret(ReturnErr("MissingOutput"), cb)
  ELSE Goto(outputs[1], cb)

\* maybe_fork!
maybe_fork(outputs, cb) ==
  IF Len(outputs) <= 1
  THEN IF Len(outputs) = 0
       THEN Ret(ReturnErr("MissingOutput"), cb)
       ELSE Goto(outputs[1], cb)
  ELSE Ret(ReturnFork(outputs), cb)

\* Handler::run: the callback at index, when there is one.
HasCallback(cbs, index) == index # NONE /\ index \in DOMAIN cbs

\* handle_inclusive_gateway, the closure find_flow.
find_flow(pd, gateway, value) == find_by_name_or_id(pd, value, gateway.outputs)

\* handle_inclusive_gateway, its last line: the one flow selected, or err.
one_flow(id, err, idx) ==
  IF id = NONE THEN {Ret(ReturnErr(err), idx)} ELSE {Ret(ReturnFork(<<id>>), idx)}

\* handle_inclusive_gateway, the arm [..] of With::Fork: the flows found are
\* collected in a HashSet, which drops the duplicates and is enumerated in
\* an order of its own; the first value that is no flow is an error.
dedup_flows_keeping_duplicates(pd, gateway, idx, values) ==
  IF \E i \in DOMAIN values : find_flow(pd, gateway, values[i]) = NONE
  THEN {Ret(ReturnErr("MissingOutput"), idx)}
  ELSE {Ret(ReturnFork([i \in DOMAIN values |-> find_flow(pd, gateway, values[i])]), idx)}

dedup_flows(pd, gateway, idx, values) ==
  IF \E i \in DOMAIN values : find_flow(pd, gateway, values[i]) = NONE
  THEN {Ret(ReturnErr("MissingOutput"), idx)}
  ELSE {Ret(ReturnFork(order), idx) :
          order \in Perms({find_flow(pd, gateway, values[i]) : i \in DOMAIN values})}

\* handle_inclusive_gateway, With::Fork(values): no value is the default
\* flow, one value is that flow, more are deduplicated.
fork_values_without_empty(pd, gateway, idx, values) ==
  IF Len(values) = 1
  THEN one_flow(find_flow(pd, gateway, values[1]), "MissingOutput", idx)
  ELSE dedup_flows(pd, gateway, idx, values)

fork_values(pd, gateway, idx, values) ==
  CASE Len(values) = 0 -> one_flow(default_path(gateway), "MissingDefault", idx)
    [] Len(values) = 1 -> one_flow(find_flow(pd, gateway, values[1]), "MissingOutput", idx)
    [] OTHER -> dedup_flows(pd, gateway, idx, values)

\* handle_inclusive_gateway: the flows an inclusive gateway selects, in each
\* order the HashSet of the deduplicated flows may be enumerated in.
handle_inclusive_gateway(pd, gateway, cbs, data) ==
  LET idx == gateway.func_idx
  IN IF ~HasCallback(cbs, idx)
     THEN {Ret(ReturnErr("MissingImplementation"), NONE)}
     ELSE IF cbs[idx].kind # "Inclusive"
     THEN {Ret(ReturnErr("MissingImplementation"), idx)}
     ELSE LET with == cbs[idx].with
          IN CASE with.w = "Flow" ->
                    one_flow(find_flow(pd, gateway, with.vs[1]), "MissingOutput", idx)
               [] with.w = "Fork" -> fork_values(pd, gateway, idx, with.vs)
               [] OTHER -> one_flow(default_path(gateway), "MissingDefault", idx)

\* flow, an Event node, with a throw Link event following its outputs as the
\* other throw events do.
FlowEvent_following_outputs(pd, event) ==
  CASE event.ty \in {"Start", "IntermediateCatch", "Boundary"} ->
         maybe_fork(event.outputs, NONE)
    [] event.ty = "IntermediateThrow" ->
         IF event.name # NoName
         THEN maybe_fork(event.outputs, NONE)
         ELSE Ret(ReturnErr("MissingIntermediateThrowEventName"), NONE)
    [] OTHER -> Ret(ReturnEnd(event.local), NONE)

\* flow, an Event node.
FlowEvent(pd, event) ==
  CASE event.ty \in {"Start", "IntermediateCatch", "Boundary"} ->
         maybe_fork(event.outputs, NONE)
    [] event.ty = "IntermediateThrow" ->
         IF event.name # NoName /\ event.symbol = "Link"
         THEN IF catch_event_link(pd, event.name) = NONE
              THEN Ret(ReturnErr("MissingIntermediateCatchEvent"), NONE)
              ELSE Goto(catch_event_link(pd, event.name), NONE)
         ELSE IF event.name # NoName
              THEN maybe_fork(event.outputs, NONE)
              ELSE Ret(ReturnErr("MissingIntermediateThrowEventName"), NONE)
    [] OTHER -> Ret(ReturnEnd(event.local), NONE)

FlowTask_ignoring_boundary(pd, activity, cbs, data) ==
  IF activity.func_idx = NONE
  THEN Ret(ReturnErr("MissingImplementation"), NONE)
  ELSE maybe_fork(activity.outputs,
                  IF HasCallback(cbs, activity.func_idx) THEN activity.func_idx ELSE NONE)

\* flow, an Activity node of a task kind: run the task callback; a boundary
\* it returns is looked up among the boundaries of the task.
FlowTask(pd, activity, cbs, data) ==
  LET idx == activity.func_idx
      run == HasCallback(cbs, idx)
      result == IF run /\ cbs[idx].kind = "Task" THEN cbs[idx].ret ELSE NoBoundary
      cb == IF run THEN idx ELSE NONE
  IN IF idx = NONE
     THEN Ret(ReturnErr("MissingImplementation"), NONE)
     ELSE IF result # NoBoundary
          THEN LET b == find_boundary(pd, activity.local, result.name, result.symbol)
               IN IF b = NONE
                  THEN Ret(ReturnErr("MissingBoundary"), cb)
                  ELSE Goto(b, cb)
          ELSE maybe_fork(activity.outputs, cb)

\* flow, an Activity node that is a sub-process: execute its process data.
FlowSubProcess(diagram, activity) ==
  IF activity.data_index = NONE \/ get_process(diagram, activity.data_index) = NONE
  THEN Ret(ReturnErr("MissingProcessData"), NONE)
  ELSE CallExecute(activity.data_index)

\* flow, the token continues after execute returned for the sub-process:
\* an interrupting end symbol routes to the matching boundary of the activity.
AfterSubProcess(pd, activity, end) ==
  IF end.bpmn = "Event" /\ end.ty = "End" /\ end.symbol \in InterruptingSymbols
  THEN LET b == find_boundary(pd, activity.local, end.name, end.symbol)
       IN IF b = NONE
          THEN Ret(ReturnErr("MissingBoundary"), NONE)
          ELSE Goto(b, NONE)
  ELSE maybe_fork(activity.outputs, NONE)

\* flow, a Gateway node without the arm for one incoming and one output.
one_to_one_never(gateway) == FALSE

\* flow, a Gateway node, the guard of its second arm: a gateway of any type
\* with one output and one incoming element.
one_to_one(gateway) == Len(gateway.outputs) = 1 /\ gateway.inputs = 1

\* Variant (not the code): only a Parallel gateway waits for its tokens.
waits_for_tokens_parallel(gateway) == gateway.ty = "Parallel" /\ gateway.inputs > 1

\* flow, the arm of a join (or join and fork): a Parallel or Inclusive
\* gateway with more than one input waits for all its tokens.
waits_for_tokens(gateway) == gateway.ty \in {"Parallel", "Inclusive"} /\ gateway.inputs > 1

\* flow, a Gateway node.
FlowGateway(pd, gateway, cbs, data) ==
  LET outputs == gateway.outputs
      idx == gateway.func_idx
      run == HasCallback(cbs, idx)
      cb == IF run THEN idx ELSE NONE
  IN CASE Len(outputs) = 0 -> {Ret(ReturnErr("MissingOutput"), NONE)}
       [] one_to_one(gateway) -> {Goto(outputs[1], NONE)}
       [] gateway.ty = "Exclusive" /\ Len(outputs) = 1 -> {Goto(outputs[1], NONE)}
       [] gateway.ty = "Exclusive" ->
            IF idx = NONE
            THEN {Ret(ReturnErr("MissingImplementation"), NONE)}
            ELSE LET value == IF run /\ cbs[idx].kind = "Exclusive"
                              THEN ExclusiveResult(cbs[idx], data)
                              ELSE NoName
                     id == IF value # NoName
                           THEN find_by_name_or_id(pd, value, outputs)
                           ELSE default_path(gateway)
                 IN IF id = NONE
                    THEN {Ret(ReturnErr(IF value # NoName THEN "MissingOutput"
                                        ELSE "MissingDefault"), cb)}
                    ELSE {Goto(id, cb)}
       [] waits_for_tokens(gateway) -> {Ret(ReturnJoin(gateway.local), NONE)}
       [] gateway.ty = "Parallel" -> {Ret(ReturnFork(outputs), NONE)}
       [] gateway.ty = "Inclusive" -> handle_inclusive_gateway(pd, gateway, cbs, data)
       [] gateway.ty = "EventBased" /\ Len(outputs) = 1 ->
            {Ret(ReturnErr("BpmnRequirement"), NONE)}
       [] gateway.ty = "EventBased" ->
            IF ~run \/ cbs[idx].kind # "EventBased"
            THEN {Ret(ReturnErr("MissingImplementation"), cb)}
            ELSE LET id == find_by_intermediate_event(pd, cbs[idx].ret, outputs)
                 IN IF id = NONE
                    THEN {Ret(ReturnErr("MissingIntermediateEvent"), cb)}
                    ELSE {Goto(id, cb)}
       [] OTHER -> {Ret(ReturnErr("TypeNotImplemented"), NONE)}

\* flow: one pass of its loop for the token on node current_id.
FlowNode(diagram, pd, cbs, current_id, data) ==
  IF current_id \notin DOMAIN pd.data
  THEN {Ret(ReturnErr("MisssingBpmnData"), NONE)}
  ELSE LET bpmn == pd.data[current_id]
       IN CASE bpmn.bpmn = "Event" -> {FlowEvent(pd, bpmn)}
            [] bpmn.bpmn = "Activity" /\ bpmn.ty \in TaskTypes ->
                 {FlowTask(pd, bpmn, cbs, data)}
            [] bpmn.bpmn = "Activity" -> {FlowSubProcess(diagram, bpmn)}
            [] bpmn.bpmn = "Gateway" -> FlowGateway(pd, bpmn, cbs, data)
            [] bpmn.bpmn = "SequenceFlow" -> {Goto(bpmn.target_ref, NONE)}
            [] OTHER -> {Ret(ReturnErr("TypeNotImplemented"), NONE)}

(***************************************************************************)
(* The diagrams and callbacks the engine is run on: a scenario is named by *)
(* sc.name, and sc.v and sc.d choose among its variants.                   *)
(***************************************************************************)
\* Counter: Start -> Task "Count 1" -> Exclusive "equal to 3".  With v = 1,
\* "YES" leads back to the task and "NO" (the default) to End; with v = 2,
\* "YES" leads to End and "NO" (the default) back to the task.
CounterProcess(v) ==
  ProcessData(<<
    Ev("Start", "start", NoName, NoSymbol, <<1>>),                     \* 0
    Sf("f1", NoName, 2),                                               \* 1
    Act("Task", "task", "Count 1", <<3>>, 0),                          \* 2
    Sf("f2", NoName, 4),                                               \* 3
    Gw("Exclusive", "gw", "equal to 3", <<5, 6>>, 1, 6, 1),            \* 4
    Sf("f3", "YES", IF v = 1 THEN 2 ELSE 7),                           \* 5
    Sf("f4", "NO", IF v = 1 THEN 7 ELSE 2),                            \* 6
    Ev("End", "end", NoName, NoSymbol, <<>>) >>)                       \* 7

CounterCallbacks ==
  Vec(<< TaskInc("count", NoBoundary), ExclusiveEq("count", 3, "YES", "NO") >>)

\* Parallel fan (ty = "Parallel") and inclusive selection (ty = "Inclusive"):
\* Start -> fork (3 outputs A, B, C) -> one task per branch -> join
\* (inputs = 3) -> End.  The fork's default flow is C when dflt.
FanProcess(ty, dflt) ==
  ProcessData(<<
    Ev("Start", "start", NoName, NoSymbol, <<1>>),                     \* 0
    Sf("f0", NoName, 2),                                               \* 1
    Gw(ty, "fork", "fork", <<3, 4, 5>>, 1, IF dflt THEN 5 ELSE NONE,
       IF ty = "Inclusive" THEN 3 ELSE NONE),                          \* 2
    Sf("fa", "A", 6),                                                  \* 3
    Sf("fb", "B", 7),                                                  \* 4
    Sf("fc", "C", 8),                                                  \* 5
    Act("Task", "ta", "Task A", <<9>>, 0),                             \* 6
    Act("Task", "tb", "Task B", <<10>>, 1),                            \* 7
    Act("Task", "tc", "Task C", <<11>>, 2),                            \* 8
    Sf("ja", NoName, 12),                                              \* 9
    Sf("jb", NoName, 12),                                              \* 10
    Sf("jc", NoName, 12),                                              \* 11
    Gw(ty, "join", "join", <<13>>, 3, NONE, NONE),                     \* 12
    Sf("f1", NoName, 14),                                              \* 13
    Ev("End", "end", NoName, NoSymbol, <<>>) >>)                       \* 14

FanCallbacks ==
  Vec(<< TaskInc("n", NoBoundary), TaskInc("n", NoBoundary), TaskInc("n", NoBoundary) >>)

\* The values the inclusive callback returns, by sc.v.
InclusiveWiths ==
  << WithDefault,
     WithFork(<<>>),
     WithFlow("A"),
     WithFork(<<"B">>),
     WithFork(<<"A", "C">>),
     WithFork(<<"A", "A", "B">>),
     WithFork(<<"fa", "A">>),
     WithFork(<<"A", "Z">>),
     WithFork(<<"C", "B", "A">>),
     WithFlow("Z") >>

InclusiveCallbacks(v) ==
  Vec(<< TaskInc("a", NoBoundary), TaskInc("b", NoBoundary), TaskInc("c", NoBoundary),
         InclusiveRet(InclusiveWiths[v]) >>)

\* Terminate: a parallel fork into a branch to an ordinary End, two branches
\* to a join, a branch to an End with symbol sym (Terminate or Cancel) and a
\* branch with a task.  With late, the task branch is the fork's first output.
TerminateProcess(sym, late) ==
  ProcessData(<<
    Ev("Start", "start", NoName, NoSymbol, <<1>>),                     \* 0
    Sf("f0", NoName, 2),                                               \* 1
    Gw("Parallel", "fork", "fork",
       IF late THEN <<6, 3, 4, 5, 7>> ELSE <<3, 4, 5, 6, 7>>, 1, NONE, NONE), \* 2
    Sf("b_end", NoName, 8),                                            \* 3
    Sf("b_j1", NoName, 9),                                             \* 4
    Sf("b_term", NoName, 10),                                          \* 5
    Sf("b_task", NoName, 11),                                          \* 6
    Sf("b_j2", NoName, 9),                                             \* 7
    Ev("End", "e1", NoName, NoSymbol, <<>>),                           \* 8
    Gw("Parallel", "join", "join", <<14>>, 2, NONE, NONE),             \* 9
    Ev("End", "term", NoName, sym, <<>>),                              \* 10
    Act("Task", "t", "T", <<12>>, 0),                                  \* 11
    Sf("f1", NoName, 13),                                              \* 12
    Ev("End", "e3", NoName, NoSymbol, <<>>),                           \* 13
    Sf("f2", NoName, 15),                                              \* 14
    Ev("End", "e4", NoName, NoSymbol, <<>>) >>)                        \* 15

TerminateCallbacks == Vec(<< TaskInc("n", NoBoundary) >>)

\* Boundary on error: Task "Risky" with an attached boundary event of symbol
\* Error, named "fail" when named.
BoundaryProcess(named) ==
  ProcessData(<<
    Ev("Start", "start", NoName, NoSymbol, <<1>>),                     \* 0
    Sf("f0", NoName, 2),                                               \* 1
    Act("Task", "risky", "Risky", <<3>>, 0),                           \* 2
    Sf("f1", NoName, 4),                                               \* 3
    Ev("End", "normal", NoName, NoSymbol, <<>>),                       \* 4
    BoundaryEv("b", IF named THEN "fail" ELSE NoName, "Error", <<6>>, 2), \* 5
    Sf("f2", NoName, 7),                                               \* 6
    Ev("End", "handled", NoName, NoSymbol, <<>>) >>)                   \* 7

\* What the task callback of "Risky" returns, by sc.v.
BoundaryRets ==
  << NoBoundary,
     BoundarySymbol("Error"),
     BoundaryNameSymbol("fail", "Error"),
     BoundaryNameSymbol("fail", "Timer"),
     BoundarySymbol("Timer") >>

BoundaryCallbacks(v) == Vec(<< TaskInc("n", BoundaryRets[v]) >>)

\* Sub-process: the sub-process is Start -> End, the End having the symbol
\* and name SubEnds[v]; the parent is Start -> SubProcess -> End "normal".
\* With bound, the SubProcess activity carries one boundary event named "e"
\* per interrupting symbol and an unnamed Error boundary, each leading to an
\* End event of its own (named after the boundary's symbol).
SubEnds ==
  << <<"Cancel", "e">>, <<"Compensation", "e">>, <<"Conditional", "e">>,
     <<"Error", "e">>, <<"Escalation", "e">>, <<"Message", "e">>,
     <<"Signal", "e">>, <<"Timer", "e">>, <<"Error", NoName>>,
     <<"Error", "other">>, <<"Timer", NoName>>, <<NoSymbol, NoName>>,
     <<"Terminate", NoName>>, <<NoSymbol, "e">>, <<"Terminate", "e">> >>

BoundarySymbols ==
  << "Cancel", "Compensation", "Conditional", "Error", "Escalation",
     "Message", "Signal", "Timer", "Error" >>

InnerProcess(v) ==
  ProcessData(<<
    Ev("Start", "start", NoName, NoSymbol, <<1>>),                     \* 0
    Sf("f0", NoName, 2),                                               \* 1
    Ev("End", "sub_end", SubEnds[v][2], SubEnds[v][1], <<>>) >>)       \* 2

\* Boundary k is node 5 + 3k, its flow node 6 + 3k and its End node 7 + 3k.
OuterProcess(bound) ==
  LET head == <<
        Ev("Start", "start", NoName, NoSymbol, <<1>>),                 \* 0
        Sf("f0", NoName, 2),                                           \* 1
        SubProc("sp", "Sub", <<3>>, 0),                                \* 2
        Sf("f1", NoName, 4),                                           \* 3
        Ev("End", "normal", NoName, NoSymbol, <<>>) >>                 \* 4
      n == Len(BoundarySymbols)
      tail == [i \in 1..(3 * n) |->
                 LET k == (i - 1) \div 3
                     sym == BoundarySymbols[k + 1]
                 IN CASE (i - 1) % 3 = 0 ->
                           BoundaryEv("b", IF k + 1 = n THEN NoName ELSE "e", sym,
                                      <<6 + 3 * k>>, 2)
                      [] (i - 1) % 3 = 1 -> Sf("fb", NoName, 7 + 3 * k)
                      [] OTHER -> Ev("End", "caught", IF k + 1 = n THEN "unnamed" ELSE sym,
                                     NoSymbol, <<>>)]
  IN ProcessData(IF bound THEN head \o tail ELSE head)

\* Too few tokens at a parallel join (inputs counts the incoming elements the
\* gateway declares, Bpmn::add_input; a flow declared incoming need not be one
\* a token takes in the run).  v = 1: a fork of two, one branch to an
\* End, the other to a join with inputs = 2.  v = 2: a fork of three, one
\* branch to an End, two to a join J1 whose output leads to a second join J2
\* with inputs = 2.  v = 3: Start leads straight to a join with inputs = 2.
ShortProcess(v) ==
  CASE v = 1 ->
    ProcessData(<<
      Ev("Start", "start", NoName, NoSymbol, <<1>>),                   \* 0
      Sf("f0", NoName, 2),                                             \* 1
      Gw("Parallel", "fork", "fork", <<3, 4>>, 1, NONE, NONE),         \* 2
      Sf("fa", NoName, 5),                                             \* 3
      Sf("fb", NoName, 6),                                             \* 4
      Ev("End", "e1", NoName, NoSymbol, <<>>),                         \* 5
      Gw("Parallel", "join", "join", <<7>>, 2, NONE, NONE),            \* 6
      Sf("f1", NoName, 8),                                             \* 7
      Ev("End", "e2", NoName, NoSymbol, <<>>) >>)                      \* 8
  [] v = 2 ->
    ProcessData(<<
      Ev("Start", "start", NoName, NoSymbol, <<1>>),                   \* 0
      Sf("f0", NoName, 2),                                             \* 1
      Gw("Parallel", "fork", "fork", <<3, 4, 5>>, 1, NONE, NONE),      \* 2
      Sf("fa", NoName, 6),                                             \* 3
      Sf("fb", NoName, 7),                                             \* 4
      Sf("fc", NoName, 7),                                             \* 5
      Ev("End", "e1", NoName, NoSymbol, <<>>),                         \* 6
      Gw("Parallel", "j1", "j1", <<8>>, 2, NONE, NONE),                \* 7
      Sf("f1", NoName, 9),                                             \* 8
      Gw("Parallel", "j2", "j2", <<10>>, 2, NONE, NONE),               \* 9
      Sf("f2", NoName, 11),                                            \* 10
      Ev("End", "e2", NoName, NoSymbol, <<>>) >>)                      \* 11
  [] OTHER ->
    ProcessData(<<
      Ev("Start", "start", NoName, NoSymbol, <<1>>),                   \* 0
      Sf("f0", NoName, 2),                                             \* 1
      Gw("Parallel", "join", "join", <<3>>, 2, NONE, NONE),            \* 2
      Sf("f1", NoName, 4),                                             \* 3
      Ev("End", "e1", NoName, NoSymbol, <<>>) >>)                      \* 4

\* Unbalanced: the two tokens of one fork arrive at two different joins, "ja"
\* first.  v = 1: both joins are Parallel and declare 2 incoming elements.
\* v = 2: "ja" declares 3.  v = 3: both joins are Inclusive.
UnbalancedProcess(v) ==
  ProcessData(<<
    Ev("Start", "start", NoName, NoSymbol, <<1>>),                     \* 0
    Sf("f0", NoName, 2),                                               \* 1
    Gw("Parallel", "fork", "fork", <<3, 4>>, 1, NONE, NONE),           \* 2
    Sf("fa", NoName, 5),                                               \* 3
    Sf("fb", NoName, 6),                                               \* 4
    Gw(IF v = 3 THEN "Inclusive" ELSE "Parallel", "ja", "ja", <<7>>,
       IF v = 2 THEN 3 ELSE 2, NONE, NONE),                            \* 5
    Gw(IF v = 3 THEN "Inclusive" ELSE "Parallel", "jb", "jb", <<8>>, 2, NONE, NONE), \* 6
    Sf("f1", NoName, 9),                                               \* 7
    Sf("f2", NoName, 10),                                              \* 8
    Ev("End", "ea", NoName, NoSymbol, <<>>),                           \* 9
    Ev("End", "eb", NoName, NoSymbol, <<>>) >>)                        \* 10

\* Order: an inclusive fork selecting A and B; branch A sets x to 1 and ends
\* at End "ea", branch B sets x to 2 and ends at End "eb".
OrderProcess ==
  ProcessData(<<
    Ev("Start", "start", NoName, NoSymbol, <<1>>),                     \* 0
    Sf("f0", NoName, 2),                                               \* 1
    Gw("Inclusive", "fork", "fork", <<3, 4>>, 1, NONE, 2),             \* 2
    Sf("fa", "A", 5),                                                  \* 3
    Sf("fb", "B", 6),                                                  \* 4
    Act("Task", "ta", "Task A", <<7>>, 0),                             \* 5
    Act("Task", "tb", "Task B", <<8>>, 1),                             \* 6
    Sf("f1", NoName, 9),                                               \* 7
    Sf("f2", NoName, 10),                                              \* 8
    Ev("End", "ea", NoName, NoSymbol, <<>>),                           \* 9
    Ev("End", "eb", NoName, NoSymbol, <<>>) >>)                        \* 10

OrderCallbacks ==
  Vec(<< TaskSet("x", 1, NoBoundary), TaskSet("x", 2, NoBoundary),
         InclusiveRet(WithFork(<<"A", "B">>)) >>)

\* Error: a parallel fork of three.  The callback of Task "Bad" returns
\* Boundary::Symbol(Error) and the task has no boundary event, so its flow
\* fails with MissingBoundary.  v = 1: the branches are Task A, Task "Bad"
\* and Task C, in that order.  v = 2: they are an End event with the symbol
\* Terminate, Task "Bad" and Task A.
ErrorProcess(v) ==
  ProcessData(<<
    Ev("Start", "start", NoName, NoSymbol, <<1>>),                     \* 0
    Sf("f0", NoName, 2),                                               \* 1
    Gw("Parallel", "fork", "fork",
       IF v = 1 THEN <<3, 4, 5>> ELSE <<5, 4, 3>>, 1, NONE, NONE),     \* 2
    Sf("fa", NoName, 6),                                               \* 3
    Sf("fb", NoName, 7),                                               \* 4
    Sf("fc", NoName, 8),                                               \* 5
    Act("Task", "ta", "Task A", <<9>>, 0),                             \* 6
    Act("Task", "bad", "Bad", <<10>>, 1),                              \* 7
    IF v = 1 THEN Act("Task", "tc", "Task C", <<11>>, 2)
    ELSE Ev("End", "term", NoName, "Terminate", <<>>),                 \* 8
    Sf("ja", NoName, 12),                                              \* 9
    Sf("jb", NoName, 12),                                              \* 10
    Sf("jc", NoName, 12),                                              \* 11
    Gw("Parallel", "join", "join", <<13>>, 3, NONE, NONE),             \* 12
    Sf("f1", NoName, 14),                                              \* 13
    Ev("End", "end", NoName, NoSymbol, <<>>) >>)                       \* 14

ErrorCallbacks ==
  Vec(<< TaskInc("a", NoBoundary), TaskInc("b", BoundarySymbol("Error")),
         TaskInc("c", NoBoundary) >>)

\* Link events: the process is Start -> SubProcess -> IntermediateThrow
\* Link "k" -> End "wrong", and IntermediateCatch -> Task A -> End "right";
\* the sub-process is Start -> event -> End.  v = 1: the catch event of the
\* process is a Link named "k", and so is the event of the sub-process.
\* v = 2: the catch event of the process is a Link named "j"; the only catch
\* Link "k" is the one of the sub-process.  v = 3: the event of the
\* sub-process is a throw Link "k"; the only catch Link "k" is the one of
\* the process.  v = 4: the catch event named "k" of the process has the
\* Timer symbol.
LinkInnerProcess(v) ==
  ProcessData(<<
    Ev("Start", "start", NoName, NoSymbol, <<1>>),                     \* 0
    Sf("if0", NoName, 2),                                              \* 1
    Ev(IF v = 3 THEN "IntermediateThrow" ELSE "IntermediateCatch",
       "inner_link", "k", "Link", <<3>>),                              \* 2
    Sf("if1", NoName, 4),                                              \* 3
    Ev("End", "inner_end", NoName, NoSymbol, <<>>) >>)                 \* 4

LinkProcess(v) ==
  ProcessData(<<
    Ev("Start", "start", NoName, NoSymbol, <<1>>),                     \* 0
    Sf("f0", NoName, 2),                                               \* 1
    SubProc("sp", "Sub", <<3>>, 0),                                    \* 2
    Sf("f1", NoName, 4),                                               \* 3
    Ev("IntermediateThrow", "throw", "k", "Link", <<5>>),              \* 4
    Sf("f2", NoName, 6),                                               \* 5
    Ev("End", "wrong", "wrong", NoSymbol, <<>>),                       \* 6
    Ev("IntermediateCatch", "catch", IF v = 2 THEN "j" ELSE "k",
       IF v = 4 THEN "Timer" ELSE "Link", <<8>>),                      \* 7
    Sf("f3", NoName, 9),                                               \* 8
    Act("Task", "a", "A", <<10>>, 0),                                  \* 9
    Sf("f4", NoName, 11),                                              \* 10
    Ev("End", "right", "right", NoSymbol, <<>>) >>)                    \* 11

LinkCallbacks == Vec(<< TaskInc("a", NoBoundary) >>)

\* A task with v outgoing flows, whose callback returns None: Start ->
\* Task "T"; its first flow leads to Task B -> End "e1", its second flow
\* (v = 2) to Task C -> End "e2".
TaskProcess(v) ==
  ProcessData(<<
    Ev("Start", "start", NoName, NoSymbol, <<1>>),                     \* 0
    Sf("f0", NoName, 2),                                               \* 1
    Act("Task", "t", "T", IF v = 1 THEN <<3>> ELSE <<3, 4>>, 0),       \* 2
    Sf("fa", NoName, 5),                                               \* 3
    Sf("fb", NoName, 6),                                               \* 4
    Act("Task", "b", "B", <<7>>, 1),                                   \* 5
    Act("Task", "c", "C", <<8>>, 2),                                   \* 6
    Sf("f1", NoName, 9),                                               \* 7
    Sf("f2", NoName, 10),                                              \* 8
    Ev("End", "e1", NoName, NoSymbol, <<>>),                           \* 9
    Ev("End", "e2", NoName, NoSymbol, <<>>) >>)                        \* 10

TaskCallbacks ==
  Vec(<< TaskInc("a", NoBoundary), TaskInc("b", NoBoundary), TaskInc("c", NoBoundary) >>)

\* Exclusive gateway "G" with two outputs: the flow "fy" named "YES" to
\* Task A -> End "ea", and the unnamed flow "no_id" to Task B -> End "eb",
\* which is the default flow when dflt.  The callback of the gateway
\* returns ExclusiveVals[v] (NoName: None).
ExclusiveVals == <<"YES", "no_id", "zz", NoName>>

ExclusiveProcess(dflt) ==
  ProcessData(<<
    Ev("Start", "start", NoName, NoSymbol, <<1>>),                     \* 0
    Sf("f0", NoName, 2),                                               \* 1
    Gw("Exclusive", "gw", "G", <<3, 4>>, 1, IF dflt THEN 4 ELSE NONE, 0), \* 2
    Sf("fy", "YES", 5),                                                \* 3
    Sf("no_id", NoName, 6),                                            \* 4
    Act("Task", "a", "A", <<7>>, 1),                                   \* 5
    Act("Task", "b", "B", <<8>>, 2),                                   \* 6
    Sf("f1", NoName, 9),                                               \* 7
    Sf("f2", NoName, 10),                                              \* 8
    Ev("End", "ea", NoName, NoSymbol, <<>>),                           \* 9
    Ev("End", "eb", NoName, NoSymbol, <<>>) >>)                        \* 10

ExclusiveCallbacks(v) ==
  Vec(<< ExclusiveEq("x", 0, ExclusiveVals[v], NoName),
         TaskInc("a", NoBoundary), TaskInc("b", NoBoundary) >>)

\* EventBased gateway with one output and v - 1 incoming elements:
\* Start -> gateway -> End.
EventOneProcess(v) ==
  ProcessData(<<
    Ev("Start", "start", NoName, NoSymbol, <<1>>),                     \* 0
    Sf("f0", NoName, 2),                                               \* 1
    Gw("EventBased", "gw", "G", <<3>>, v - 1, NONE, NONE),             \* 2
    Sf("f1", NoName, 4),                                               \* 3
    Ev("End", "end", NoName, NoSymbol, <<>>) >>)                       \* 4

\* EventBased gateway with one output per target of EventTargets: output k
\* is flow 2 + k, which targets node 9 + k (an activity of that type and
\* name, or an IntermediateCatch event of that name and symbol), followed by
\* flow 16 + k to End 23 + k.  The callback returns EventRets[v].
EventTargets ==
  << <<"ReceiveTask", "rcv", NoSymbol>>, <<"Task", "plain", NoSymbol>>,
     <<"Event", "ev", "Timer">>, <<"Event", "msg", "Message">>,
     <<"Event", "sig", "Signal">>, <<"Event", "cond", "Conditional">>,
     <<"Event", "err", "Error">> >>

EventRets ==
  << <<"rcv", "Message">>, <<"rcv", "Timer">>, <<"plain", "Message">>,
     <<"ev", "Timer">>, <<"ev", "Signal">>, <<"msg", "Message">>,
     <<"sig", "Signal">>, <<"cond", "Conditional">>, <<"err", "Error">> >>

EventProcess ==
  LET n == Len(EventTargets)
      head == <<
        Ev("Start", "start", NoName, NoSymbol, <<1>>),                 \* 0
        Sf("f0", NoName, 2),                                           \* 1
        Gw("EventBased", "gw", "G", [k \in 1..n |-> 2 + k], 1, NONE, 0) >> \* 2
      flows == [k \in 1..n |-> Sf("fo", NoName, 2 + n + k)]
      targets == [k \in 1..n |->
                    LET t == EventTargets[k]
                    IN IF t[1] = "Event"
                       THEN Ev("IntermediateCatch", "target", t[2], t[3], <<2 + 2 * n + k>>)
                       ELSE Act(t[1], "target", t[2], <<2 + 2 * n + k>>, k)]
      after == [k \in 1..n |-> Sf("fe", NoName, 2 + 3 * n + k)]
      ends == [k \in 1..n |-> Ev("End", "end", NoName, NoSymbol, <<>>)]
  IN ProcessData(head \o flows \o targets \o after \o ends)

EventCallbacks(v) ==
  Vec(<< EventBasedRet(EventRets[v][1], EventRets[v][2]),
         TaskInc("a", NoBoundary), TaskInc("b", NoBoundary) >>)

\* Two top-level processes, listed in the Definitions block in the order
\* of their blocks: process k is Start -> Task (callback k) -> End.  The
\* task of the first process sets x to 1, the task of the second adds 1 to
\* x.  v = 2: the callback of the first task returns a boundary the task
\* has not; v = 3: the callback of the second task does.
MultiProcess(k) ==
  ProcessData(<<
    Ev("Start", "start", NoName, NoSymbol, <<1>>),                     \* 0
    Sf("f0", NoName, 2),                                               \* 1
    Act("Task", "t", "T", <<3>>, k),                                   \* 2
    Sf("f1", NoName, 4),                                               \* 3
    Ev("End", "end", "end", IF k = 0 THEN NoSymbol ELSE "Message", <<>>) >>) \* 4

MultiCallbacks(v) ==
  Vec(<< TaskSet("x", 1, IF v = 2 THEN BoundarySymbol("Error") ELSE NoBoundary),
         TaskInc("x", IF v = 3 THEN BoundarySymbol("Error") ELSE NoBoundary) >>)

\* Nested parallel forks.  v = 1: fork1 -> (a, b); a -> fork2 -> (c, d) ->
\* join2 -> join1; b -> join1 -> End.  v = 2: fork1 -> (a, b); a -> fork2 ->
\* (c, d), c and d each to an End event of its own; b -> fork3 -> (e, f);
\* e -> join3; f -> fork5 -> (g, h) -> join5 -> join3 (Inclusive) -> End.
NestedProcess(v) ==
  IF v = 1
  THEN ProcessData(<<
    Ev("Start", "start", NoName, NoSymbol, <<1>>),                     \* 0
    Sf("f0", NoName, 2),                                               \* 1
    Gw("Parallel", "fork1", NoName, <<3, 4>>, 1, NONE, NONE),          \* 2
    Sf("a", NoName, 5),                                                \* 3
    Sf("b", NoName, 10),                                               \* 4
    Gw("Parallel", "fork2", NoName, <<6, 7>>, 1, NONE, NONE),          \* 5
    Sf("c", NoName, 8),                                                \* 6
    Sf("d", NoName, 8),                                                \* 7
    Gw("Parallel", "join2", NoName, <<9>>, 2, NONE, NONE),             \* 8
    Sf("j2", NoName, 10),                                              \* 9
    Gw("Parallel", "join1", NoName, <<11>>, 2, NONE, NONE),            \* 10
    Sf("j1", NoName, 12),                                              \* 11
    Ev("End", "end", NoName, NoSymbol, <<>>) >>)                       \* 12
  ELSE ProcessData(<<
    Ev("Start", "start", NoName, NoSymbol, <<1>>),                     \* 0
    Sf("f0", NoName, 2),                                               \* 1
    Gw("Parallel", "fork1", NoName, <<3, 4>>, 1, NONE, NONE),          \* 2
    Sf("a", NoName, 5),                                                \* 3
    Sf("b", NoName, 10),                                               \* 4
    Gw("Parallel", "fork2", NoName, <<6, 7>>, 1, NONE, NONE),          \* 5
    Sf("c", NoName, 8),                                                \* 6
    Sf("d", NoName, 9),                                                \* 7
    Ev("End", "end1", NoName, NoSymbol, <<>>),                         \* 8
    Ev("End", "end2", NoName, NoSymbol, <<>>),                         \* 9
    Gw("Parallel", "fork3", NoName, <<11, 12>>, 1, NONE, NONE),        \* 10
    Sf("e", NoName, 17),                                               \* 11
    Sf("f", NoName, 13),                                               \* 12
    Gw("Parallel", "fork5", NoName, <<14, 15>>, 1, NONE, NONE),        \* 13
    Sf("g", NoName, 16),                                               \* 14
    Sf("h", NoName, 16),                                               \* 15
    Gw("Parallel", "join5", NoName, <<18>>, 2, NONE, NONE),            \* 16
    Gw("Inclusive", "join3", NoName, <<19>>, 2, NONE, NONE),           \* 17
    Sf("j5", NoName, 17),                                              \* 18
    Sf("j3", NoName, 20),                                              \* 19
    Ev("End", "end3", NoName, NoSymbol, <<>>) >>)                      \* 20

\* An Inclusive gateway that is both join and fork: Start -> Parallel fork
\* (a, b) -> Inclusive gateway "both" (2 inputs; outputs X and Y, Y its
\* default flow) -> one End event behind each output.
IncJoinProcess ==
  ProcessData(<<
    Ev("Start", "start", NoName, NoSymbol, <<1>>),                     \* 0
    Sf("f0", NoName, 2),                                               \* 1
    Gw("Parallel", "fork", NoName, <<3, 4>>, 1, NONE, NONE),           \* 2
    Sf("a", NoName, 5),                                                \* 3
    Sf("b", NoName, 5),                                                \* 4
    Gw("Inclusive", "both", "both", <<6, 7>>, 2, 7, 0),                \* 5
    Sf("fx", "X", 8),                                                  \* 6
    Sf("fy", "Y", 9),                                                  \* 7
    Ev("End", "endx", NoName, NoSymbol, <<>>),                         \* 8
    Ev("End", "endy", NoName, NoSymbol, <<>>) >>)                      \* 9

\* The values the inclusive callback of the gateway "both" returns, by sc.v.
IncJoinWiths == << WithFork(<<"X", "Y">>), WithFlow("X"), WithDefault, WithFlow("Z") >>

IncJoinCallbacks(v) == Vec(<< InclusiveRet(IncJoinWiths[v]) >>)

\* A sub-process with a fork of its own inside a fork of the parent.  The
\* sub-process: Start -> Parallel fork -> (x, y); x -> End "stop" with the
\* symbol SubForkEnds[v]; y -> Task "inner" -> End "late".  The parent:
\* Start -> Parallel fork -> (a, b); a -> SubProcess, b -> Task "outer";
\* both -> Parallel join -> End.
SubForkEnds == << "Terminate", NoSymbol, "Link" >>

SubForkInner(v) ==
  ProcessData(<<
    Ev("Start", "start", NoName, NoSymbol, <<1>>),                     \* 0
    Sf("f0", NoName, 2),                                               \* 1
    Gw("Parallel", "fork", NoName, <<3, 4>>, 1, NONE, NONE),           \* 2
    Sf("x", NoName, 5),                                                \* 3
    Sf("y", NoName, 6),                                                \* 4
    Ev("End", "stop", NoName, SubForkEnds[v], <<>>),                   \* 5
    Act("Task", "inner", "inner", <<7>>, 1),                           \* 6
    Sf("f1", NoName, 8),                                               \* 7
    Ev("End", "late", NoName, NoSymbol, <<>>) >>)                      \* 8

SubForkOuter ==
  ProcessData(<<
    Ev("Start", "start", NoName, NoSymbol, <<1>>),                     \* 0
    Sf("f0", NoName, 2),                                               \* 1
    Gw("Parallel", "fork", NoName, <<3, 4>>, 1, NONE, NONE),           \* 2
    Sf("a", NoName, 5),                                                \* 3
    Sf("b", NoName, 6),                                                \* 4
    SubProc("sp", "Sub", <<7>>, 0),                                    \* 5
    Act("Task", "outer", "outer", <<8>>, 0),                           \* 6
    Sf("ja", NoName, 9),                                               \* 7
    Sf("jb", NoName, 9),                                               \* 8
    Gw("Parallel", "join", NoName, <<10>>, 2, NONE, NONE),             \* 9
    Sf("f1", NoName, 11),                                              \* 10
    Ev("End", "end", NoName, NoSymbol, <<>>) >>)                       \* 11

SubForkCallbacks == Vec(<< TaskInc("a", NoBoundary), TaskInc("b", NoBoundary) >>)

\* A loop through a fork: Start -> Task "count" -> fork (A, B) -> join ->
\* Exclusive "again": "NO" (the default) leads back to the task, "YES" (the
\* count is 3) to End.  v = 1: the fork and the join are Parallel; v = 2:
\* they are Inclusive and the fork selects the flow A alone; v = 3: they are
\* Inclusive and the fork selects A and B.
LoopForkWiths == << WithDefault, WithFlow("A"), WithFork(<<"A", "B">>) >>

LoopForkProcess(v) ==
  LET ty == IF v = 1 THEN "Parallel" ELSE "Inclusive"
  IN ProcessData(<<
    Ev("Start", "start", NoName, NoSymbol, <<1>>),                     \* 0
    Sf("f0", NoName, 2),                                               \* 1
    Act("Task", "count", "count", <<3>>, 0),                           \* 2
    Sf("f1", NoName, 4),                                               \* 3
    Gw(ty, "fork", "fork", <<5, 6>>, 1, NONE, IF v = 1 THEN NONE ELSE 2), \* 4
    Sf("fa", "A", 7),                                                  \* 5
    Sf("fb", "B", 7),                                                  \* 6
    Gw(ty, "join", "join", <<8>>, 2, NONE, NONE),                      \* 7
    Sf("f2", NoName, 9),                                               \* 8
    Gw("Exclusive", "again", "again", <<10, 11>>, 1, 11, 1),           \* 9
    Sf("f3", "YES", 12),                                               \* 10
    Sf("f4", "NO", 2),                                                 \* 11
    Ev("End", "end", NoName, NoSymbol, <<>>) >>)                       \* 12

LoopForkCallbacks(v) ==
  Vec(<< TaskInc("count", NoBoundary), ExclusiveEq("count", 3, "YES", "NO"),
         InclusiveRet(LoopForkWiths[v]) >>)

Scenario(name, v, d) == [name |-> name, v |-> v, d |-> d]

Scenarios ==
  {Scenario("counter", v, FALSE) : v \in 1..2}
  \cup {Scenario("fan", 1, FALSE)}
  \cup {Scenario("inclusive", v, d) : v \in DOMAIN InclusiveWiths, d \in BOOLEAN}
  \cup {Scenario("terminate", v, d) : v \in 1..2, d \in BOOLEAN}
  \cup {Scenario("boundary", v, d) : v \in DOMAIN BoundaryRets, d \in BOOLEAN}
  \cup {Scenario("subprocess", v, d) : v \in DOMAIN SubEnds, d \in BOOLEAN}
  \cup {Scenario("short", v, FALSE) : v \in 1..3}
  \cup {Scenario("unbalanced", v, FALSE) : v \in 1..3}
  \cup {Scenario("order", 1, FALSE)}
  \cup {Scenario("error", v, FALSE) : v \in 1..2}
  \cup {Scenario("link", v, FALSE) : v \in 1..4}
  \cup {Scenario("task", v, FALSE) : v \in 1..2}
  \cup {Scenario("exclusive", v, d) : v \in DOMAIN ExclusiveVals, d \in BOOLEAN}
  \cup {Scenario("eventone", v, FALSE) : v \in 1..3}
  \cup {Scenario("multi", v, FALSE) : v \in 1..3}
  \cup {Scenario("nested", v, FALSE) : v \in 1..2}
  \cup {Scenario("incjoin", v, FALSE) : v \in DOMAIN IncJoinWiths}
  \cup {Scenario("subfork", v, FALSE) : v \in DOMAIN SubForkEnds}
  \cup {Scenario("loopfork", v, FALSE) : v \in DOMAIN LoopForkWiths}
  \cup {Scenario("event", v, FALSE) : v \in DOMAIN EventRets}

\* The top-level processes of a scenario's diagram (its sub-process blocks
\* come first, the Definitions block last).
ProcessesOf(s) ==
  CASE s.name = "counter" -> <<CounterProcess(s.v)>>
    [] s.name = "fan" -> <<FanProcess("Parallel", FALSE)>>
    [] s.name = "inclusive" -> <<FanProcess("Inclusive", s.d)>>
    [] s.name = "terminate" ->
         <<TerminateProcess(IF s.v = 1 THEN "Terminate" ELSE "Cancel", s.d)>>
    [] s.name = "boundary" -> <<BoundaryProcess(s.d)>>
    [] s.name = "subprocess" -> <<InnerProcess(s.v), OuterProcess(s.d)>>
    [] s.name = "short" -> <<ShortProcess(s.v)>>
    [] s.name = "unbalanced" -> <<UnbalancedProcess(s.v)>>
    [] s.name = "error" -> <<ErrorProcess(s.v)>>
    [] s.name = "link" -> <<LinkInnerProcess(s.v), LinkProcess(s.v)>>
    [] s.name = "task" -> <<TaskProcess(s.v)>>
    [] s.name = "exclusive" -> <<ExclusiveProcess(s.d)>>
    [] s.name = "eventone" -> <<EventOneProcess(s.v)>>
    [] s.name = "multi" -> <<MultiProcess(0), MultiProcess(1)>>
    [] s.name = "nested" -> <<NestedProcess(s.v)>>
    [] s.name = "incjoin" -> <<IncJoinProcess>>
    [] s.name = "subfork" -> <<SubForkInner(s.v), SubForkOuter>>
    [] s.name = "loopfork" -> <<LoopForkProcess(s.v)>>
    [] s.name = "event" -> <<EventProcess>>
    [] OTHER -> <<OrderProcess>>

\* The Definitions block: one Process node per top-level process, each with
\* the index of its data (DataBuilder::end_process).
DefinitionsOf(s) ==
  CASE s.name \in {"subprocess", "link", "subfork"} -> ProcessData(<<Proc("outer", 1)>>)
    [] s.name = "multi" -> ProcessData(<<Proc("first", 0), Proc("second", 1)>>)
    [] OTHER -> ProcessData(<<Proc("process", 0)>>)

\* Diagram.data
DiagramOf(s) == Vec(Append(ProcessesOf(s), DefinitionsOf(s)))

\* Handler.callbacks
CallbacksOf(s) ==
  CASE s.name = "counter" -> CounterCallbacks
    [] s.name = "fan" -> FanCallbacks
    [] s.name = "inclusive" -> InclusiveCallbacks(s.v)
    [] s.name = "terminate" -> TerminateCallbacks
    [] s.name = "boundary" -> BoundaryCallbacks(s.v)
    [] s.name = "order" -> OrderCallbacks
    [] s.name = "error" -> ErrorCallbacks
    [] s.name = "link" -> LinkCallbacks
    [] s.name = "task" -> TaskCallbacks
    [] s.name = "exclusive" -> ExclusiveCallbacks(s.v)
    [] s.name = "event" -> EventCallbacks(s.v)
    [] s.name = "multi" -> MultiCallbacks(s.v)
    [] s.name = "incjoin" -> IncJoinCallbacks(s.v)
    [] s.name = "subfork" -> SubForkCallbacks
    [] s.name = "loopfork" -> LoopForkCallbacks(s.v)
    [] OTHER -> Vec(<<>>)

(***************************************************************************)
(* Building a diagram (diagram/reader/builder.rs, diagram.rs) and a        *)
(* process (process.rs, process/handler.rs).  While a diagram is built a   *)
(* reference holds the bpmn id it names next to its local index, which is  *)
(* 0 until finalize resolves it.                                           *)
(***************************************************************************)
\* A node as it is handed to the builder: Id::from gives every local index
\* 0, Outputs is empty, func_idx and data_index are unset.  A Direction
\* (incoming or outgoing) carries a text.
New(bpmn, ty, id, name, target, attached, dflt) ==
  [bpmn |-> bpmn, ty |-> ty, id |-> id, local |-> 0, name |-> name, symbol |-> NoSymbol,
   outputs |-> <<>>, bpmn_ids |-> <<>>, inputs |-> 0,
   default |-> IF dflt = NoName THEN NONE ELSE 0, default_bpmn |-> dflt,
   func_idx |-> NONE, data_index |-> NONE,
   target_ref |-> IF bpmn = "SequenceFlow" THEN 0 ELSE NONE, target_bpmn |-> target,
   attached_to_ref |-> IF attached = NoName THEN NONE ELSE 0, attached_bpmn |-> attached,
   text |-> NoName]

NoNode == New("", "", NoName, NoName, NoName, NoName, NoName)

\* Vec::push
Push(v, x) == v @@ (VecLen(v) :> x)

\* ProcessData::default
EmptyProcessData ==
  [start |-> NONE, data |-> <<>>, boundaries |-> <<>>, catch_event_links |-> <<>>]

\* Bpmn::update_local_id(value)
update_local_id_of(bpmn, value) ==
  IF bpmn.bpmn = "Direction" THEN bpmn ELSE [bpmn EXCEPT !.local = value]

\* ProcessData::add without the error: a later Start event without symbol
\* replaces the earlier one as start.
ProcessData_add_replacing(pd, bpmn) ==
  LET len == VecLen(pd.data)
      none_start == bpmn.bpmn = "Event" /\ bpmn.ty = "Start" /\ bpmn.symbol = NoSymbol
  IN [pd |-> [pd EXCEPT !.start = IF none_start THEN len ELSE @,
                        !.data = Push(@, update_local_id_of(bpmn, len))],
      err |-> ""]

\* ProcessData::add that does not record the start.
ProcessData_add_startless(pd, bpmn) ==
  [pd |-> [pd EXCEPT !.data = Push(@, update_local_id_of(bpmn, VecLen(pd.data)))], err |-> ""]

\* ProcessData::add: a second Start event without symbol is an error (start
\* has been replaced by then); otherwise the node gets its index as local id
\* and is pushed.
ProcessData_add(pd, bpmn) ==
  LET len == VecLen(pd.data)
      none_start == bpmn.bpmn = "Event" /\ bpmn.ty = "Start" /\ bpmn.symbol = NoSymbol
  IN IF none_start /\ pd.start # NONE
     THEN [pd |-> [pd EXCEPT !.start = len], err |-> "BpmnRequirement"]
     ELSE [pd |-> [pd EXCEPT !.start = IF none_start THEN len ELSE @,
                             !.data = Push(@, update_local_id_of(bpmn, len))],
           err |-> ""]

\* finalize, bpmn_index: bpmn id to index; of two nodes with one id the later
\* one is kept.
bpmn_index(data) ==
  LET I == {i \in DOMAIN data : data[i].bpmn # "Direction"}
  IN [id \in {data[i].id : i \in I} |->
        CHOOSE i \in I : data[i].id = id /\ \A j \in I : data[j].id = id => j <= i]

\* Id::update_local_id: the index of the bpmn id, when the map has it.
update_local_id(local_id, bpmn_id, map) ==
  IF bpmn_id \in DOMAIN map THEN map[bpmn_id] ELSE local_id

\* Outputs::update_local_ids
update_local_ids(local_ids, bpmn_ids, map) ==
  [idx \in DOMAIN bpmn_ids |-> update_local_id(local_ids[idx], bpmn_ids[idx], map)]

\* finalize, what it does to one node.
finalize_node(bpmn, map) ==
  CASE bpmn.bpmn = "Activity" ->
         [bpmn EXCEPT !.outputs = update_local_ids(@, bpmn.bpmn_ids, map)]
    [] bpmn.bpmn = "Event" ->
         [bpmn EXCEPT !.outputs = update_local_ids(@, bpmn.bpmn_ids, map),
                      !.attached_to_ref =
                         IF @ = NONE THEN NONE ELSE update_local_id(@, bpmn.attached_bpmn, map)]
    [] bpmn.bpmn = "Gateway" ->
         [bpmn EXCEPT !.outputs = update_local_ids(@, bpmn.bpmn_ids, map),
                      !.default =
                         IF @ = NONE THEN NONE ELSE update_local_id(@, bpmn.default_bpmn, map)]
    [] bpmn.bpmn = "SequenceFlow" ->
         [bpmn EXCEPT !.target_ref = update_local_id(@, bpmn.target_bpmn, map)]
    [] OTHER -> bpmn

\* ProcessData::finalize: resolve the references of every node, collect the
\* boundary events by the activity they are attached to and the catch link
\* events by name.
finalize(pd) ==
  LET map == bpmn_index(pd.data)
      data == [i \in DOMAIN pd.data |-> finalize_node(pd.data[i], map)]
      acts == {data[i].attached_to_ref : i \in DOMAIN data} \ {NONE}
  IN [start |-> pd.start,
      data |-> data,
      boundaries |-> [a \in acts |-> BoundariesUpTo(data, a, VecLen(data))],
      catch_event_links |-> CatchEventLinks(data)]

\* Outputs::add, through Bpmn::add_output: events, gateways and activities
\* take the id with local index 0.
add_output(bpmn, text) ==
  IF bpmn.bpmn \in {"Event", "Gateway", "Activity"}
  THEN [bpmn EXCEPT !.bpmn_ids = Append(@, text), !.outputs = Append(@, 0)]
  ELSE bpmn

\* Bpmn::add_input
add_input(bpmn) ==
  IF bpmn.bpmn = "Gateway" THEN [bpmn EXCEPT !.inputs = @ + 1] ELSE bpmn

\* Variant (not the code): the index after the one the data will have.
update_data_index_next(bpmn, value) ==
  IF (bpmn.bpmn = "Activity" /\ bpmn.ty = "SubProcess") \/ bpmn.bpmn = "Process"
  THEN [bpmn EXCEPT !.data_index = value + 1]
  ELSE bpmn

\* Bpmn::update_data_index
update_data_index(bpmn, value) ==
  IF (bpmn.bpmn = "Activity" /\ bpmn.ty = "SubProcess") \/ bpmn.bpmn = "Process"
  THEN [bpmn EXCEPT !.data_index = value]
  ELSE bpmn

\* check_unsupported that supports every node.
check_unsupported_nothing(bpmn) == ""

\* check_unsupported: a sequence flow that was opened and is closed with an
\* end tag is a conditional sequence flow.
check_unsupported(bpmn) == IF bpmn.bpmn = "SequenceFlow" THEN "NotSupported" ELSE ""

\* DataBuilder::default
NewBuilder == [data |-> <<>>, process_stack |-> <<>>, stack |-> <<>>]

Last(seq) == seq[Len(seq)]

Front(seq) == SubSeq(seq, 1, Len(seq) - 1)

\* The result of a builder call: the builder after it, and its error.
Built(b, err) == [b |-> b, err |-> err]

\* DataBuilder::add
DataBuilder_add(b, bpmn) == Built([b EXCEPT !.stack = Append(@, bpmn)], "")

\* DataBuilder::add_new_process
add_new_process(b, bpmn) ==
  DataBuilder_add([b EXCEPT !.process_stack = Append(@, EmptyProcessData)], bpmn)

\* DataBuilder::add_to_process: without an open process the node is dropped.
add_to_process(b, bpmn) ==
  IF b.process_stack = <<>>
  THEN Built(b, "")
  ELSE LET r == ProcessData_add(Last(b.process_stack), bpmn)
       IN Built([b EXCEPT !.process_stack[Len(b.process_stack)] = r.pd], r.err)

\* DataBuilder::update_symbol
update_symbol(b, symbol) ==
  IF b.stack # <<>> /\ Last(b.stack).bpmn = "Event"
  THEN Built([b EXCEPT !.stack[Len(b.stack)].symbol = symbol], "")
  ELSE Built(b, "")

\* DataBuilder::add_text
add_text(b, value) ==
  IF b.stack # <<>> /\ Last(b.stack).bpmn = "Direction"
  THEN Built([b EXCEPT !.stack[Len(b.stack)].text = value], "")
  ELSE Built(b, "")

\* DataBuilder::add_direction: the top of the stack is popped; when it is a
\* Direction with a text and has a parent, the parent gets an output or an
\* input.
add_direction(b, direction) ==
  IF b.stack = <<>>
  THEN Built(b, "")
  ELSE LET top == Last(b.stack)
           rest == Front(b.stack)
       IN IF rest # <<>> /\ top.bpmn = "Direction" /\ top.text # NoName
          THEN Built([b EXCEPT !.stack =
                        [rest EXCEPT ![Len(rest)] =
                           IF direction = "outgoing" THEN add_output(@, top.text)
                           ELSE add_input(@)]], "")
          ELSE Built([b EXCEPT !.stack = rest], "")

\* DataBuilder::end
DataBuilder_end(b) ==
  IF b.stack = <<>>
  THEN Built(b, "")
  ELSE LET bpmn == Last(b.stack)
           popped == [b EXCEPT !.stack = Front(@)]
       IN IF check_unsupported(bpmn) # ""
          THEN Built(popped, check_unsupported(bpmn))
          ELSE add_to_process(popped, bpmn)

\* DataBuilder::end_process: the block is added to its parent with the index
\* its data will have, then finalized and pushed.
end_process(b) ==
  LET popped == [b EXCEPT !.stack = IF @ = <<>> THEN @ ELSE Front(@),
                          !.process_stack = IF @ = <<>> THEN @ ELSE Front(@)]
  IN IF b.stack = <<>> \/ b.process_stack = <<>>
     THEN Built(popped, "Builder")
     ELSE LET bpmn == update_data_index(Last(b.stack), Len(b.data))
              process_data == Last(b.process_stack)
              parent == IF popped.process_stack = <<>>
                        THEN Built(popped, "")
                        ELSE add_to_process(popped, bpmn)
          IN IF parent.err # ""
             THEN parent
             ELSE Built([parent.b EXCEPT !.data = Append(@, finalize(process_data))], "")

\* Handler::default.  handler_map is an Option<HandlerMap>: some tells
\* whether it is Some, and handler_map is then the map (empty when None).
NewHandler == [callbacks |-> <<>>, handler_map |-> <<>>, some |-> TRUE]

\* Variant (not the code): an entry already there is kept.
HandlerMap_insert_keeping(map, handler_type, name, index) ==
  [k \in DOMAIN map \cup {<<handler_type, name>>} |->
     IF k \in DOMAIN map THEN map[k] ELSE index]

\* HandlerMap::insert: an entry of the same type and name is replaced.
HandlerMap_insert(map, handler_type, name, index) ==
  [k \in DOMAIN map \cup {<<handler_type, name>>} |->
     IF k = <<handler_type, name>> THEN index ELSE map[k]]

\* HandlerMap::get
HandlerMap_get(map, handler_type, key) ==
  IF <<handler_type, key>> \in DOMAIN map THEN map[<<handler_type, key>>] ELSE NONE

\* Variant (not the code): the callback is pushed whether or not the
\* handler map is still there.
add_callback_always(h, name, kind) ==
  [h EXCEPT !.handler_map = IF h.some
                            THEN HandlerMap_insert(@, kind, name, Len(h.callbacks))
                            ELSE @,
            !.callbacks = Append(@, kind)]

\* Handler::add_callback: while the handler map is there, the callback
\* (here: its kind) is pushed and its index entered under its kind and
\* name; afterwards nothing is done.
add_callback(h, name, kind) ==
  IF h.some
  THEN [h EXCEPT !.handler_map = HandlerMap_insert(@, kind, name, Len(h.callbacks)),
                 !.callbacks = Append(@, kind)]
  ELSE h

\* Handler::build: handler_map.take(), or the Builder error when it was
\* taken before.
Handler_build(h) ==
  IF h.some
  THEN [h |-> [h EXCEPT !.some = FALSE, !.handler_map = <<>>], map |-> h.handler_map,
        err |-> ""]
  ELSE [h |-> h, map |-> <<>>, err |-> "Builder"]

\* install_and_check: the handler type a node needs, "" when it needs none.
HandlerTypeOf(bpmn) ==
  CASE bpmn.bpmn = "Activity" /\ bpmn.ty \in TaskTypes -> "Task"
    [] /\ bpmn.bpmn = "Gateway"
       /\ bpmn.ty \in {"EventBased", "Exclusive", "Inclusive"}
       /\ Len(bpmn.outputs) > 1 -> bpmn.ty
    [] OTHER -> ""

\* install_and_check: name.as_deref().unwrap_or(id.bpmn())
name_or_id(bpmn) == IF bpmn.name # NoName THEN bpmn.name ELSE bpmn.id

\* install_and_check: whether the node is reported missing.
is_missing_first_only(data, p, i, handler_map) ==
  /\ HandlerTypeOf(data[p].data[i]) # ""
  /\ HandlerMap_get(handler_map, HandlerTypeOf(data[p].data[i]), name_or_id(data[p].data[i])) = NONE
  /\ \A q \in DOMAIN data : \A j \in DOMAIN data[q].data :
       (q < p \/ (q = p /\ j < i)) =>
         \/ HandlerTypeOf(data[q].data[j]) = ""
         \/ HandlerMap_get(handler_map, HandlerTypeOf(data[q].data[j]), name_or_id(data[q].data[j])) # NONE

is_missing(data, p, i, handler_map) ==
  /\ HandlerTypeOf(data[p].data[i]) # ""
  /\ HandlerMap_get(handler_map, HandlerTypeOf(data[p].data[i]), name_or_id(data[p].data[i])) = NONE

\* install_and_check: the node with func_idx replaced when a handler of its
\* type is registered under its name (its id when it has no name).
install(bpmn, handler_map) ==
  IF HandlerTypeOf(bpmn) # ""
     /\ HandlerMap_get(handler_map, HandlerTypeOf(bpmn), name_or_id(bpmn)) # NONE
  THEN [bpmn EXCEPT !.func_idx = HandlerMap_get(handler_map, HandlerTypeOf(bpmn), name_or_id(bpmn))]
  ELSE bpmn

\* Diagram::install_and_check: the diagram with the handlers installed, and
\* the set of "{type}: {name or id}" of the nodes without one.
install_and_check(data, handler_map) ==
  [data |-> [p \in DOMAIN data |->
               [data[p] EXCEPT !.data = [i \in DOMAIN data[p].data |->
                                           install(data[p].data[i], handler_map)]]],
   missing |-> {<<data[p[1]].data[p[2]].ty, name_or_id(data[p[1]].data[p[2]])>> :
                  p \in {q \in UNION {{<<a, i>> : i \in DOMAIN data[a].data} : a \in DOMAIN data} :
                           is_missing(data, q[1], q[2], handler_map)}}]

(***************************************************************************)
(* The calls the reader makes on the builder for a document, and the       *)
(* documents and registrations a process is built from.                    *)
(***************************************************************************)
Call(op, bpmn, arg) == [op |-> op, bpmn |-> bpmn, arg |-> arg]

\* <incoming>id</incoming> or <outgoing>id</outgoing>, once per id.
RECURSIVE Directions(_, _)
Directions(ids, direction) ==
  IF ids = <<>> THEN <<>>
  ELSE << Call("add", New("Direction", direction, NoName, NoName, NoName, NoName, NoName), ""),
          Call("add_text", NoNode, Head(ids)),
          Call("add_direction", NoNode, direction) >>
       \o Directions(Tail(ids), direction)

\* An element with a start and an end tag: its incoming and outgoing
\* children, and the child that defines its symbol.
Element(bpmn, symbol, incoming, outgoing) ==
  <<Call("add", bpmn, "")>>
  \o Directions(incoming, "incoming")
  \o Directions(outgoing, "outgoing")
  \o (IF symbol # NoSymbol THEN <<Call("update_symbol", NoNode, symbol)>> ELSE <<>>)
  \o <<Call("end", NoNode, "")>>

\* An empty element.
EmptyElement(bpmn) == <<Call("add_to_process", bpmn, "")>>

\* A definitions, process or subProcess element around body.
Block(bpmn, body) ==
  <<Call("add_new_process", bpmn, "")>> \o body \o <<Call("end_process", NoNode, "")>>

\* The id of the n-th start event.
StartId(n) == "s" \o ToString(n)

\* One start event per symbol of symbols, each with the outgoing flow out.
RECURSIVE StartEvents(_, _, _)
StartEvents(symbols, n, out) ==
  IF n = 0 THEN <<>>
  ELSE StartEvents(symbols, n - 1, out)
       \o Element(New("Event", "Start", StartId(n), NoName, NoName, NoName, NoName),
                  symbols[n], <<>>, <<out>>)

SequenceFlow(id, target) == New("SequenceFlow", "", id, NoName, target, NoName, NoName)

\* The sub-process of a document: start events with the symbols starts, a
\* flow and the End event "inner_end".
SubProcessBlock(starts) ==
  Block(New("Activity", "SubProcess", "sp", "Sub", NoName, NoName, NoName),
        StartEvents(starts, Len(starts), "if0")
        \o Element(New("Event", "End", "inner_end", NoName, NoName, NoName, NoName),
                   NoSymbol, <<"if0">>, <<>>)
        \o EmptyElement(SequenceFlow("if0", "inner_end")))

\* The id of the End event of the process or sub-process element id.
EndIdOf(id) ==
  CASE id = "p" -> "e"
    [] id = "sp" -> "inner_end"
    [] OTHER -> "e_" \o id

\* A process (top) or sub-process element id with a start event, a flow and
\* an End event of its own, and nested in it one sub-process per entry of
\* tree, each of the shape the entry gives (a sequence of shapes in turn).
RECURSIVE TreeBlock(_, _, _)
RECURSIVE TreeBlocks(_, _, _, _)
TreeBlock(tree, id, top) ==
  Block(IF top THEN New("Process", "", id, NoName, NoName, NoName, NoName)
        ELSE New("Activity", "SubProcess", id, NoName, NoName, NoName, NoName),
        StartEvents(<<NoSymbol>>, 1, "if0")
        \o Element(New("Event", "End", EndIdOf(id), NoName, NoName, NoName, NoName),
                   NoSymbol, <<"if0">>, <<>>)
        \o TreeBlocks(tree, Len(tree), id \o "_", FALSE)
        \o EmptyElement(SequenceFlow("if0", EndIdOf(id))))

\* The first n elements of trees, with the ids prefix1, prefix2, ...
TreeBlocks(trees, n, prefix, top) ==
  IF n = 0 THEN <<>>
  ELSE TreeBlocks(trees, n - 1, prefix, top)
       \o TreeBlock(trees[n], prefix \o ToString(n), top)

\* The shapes of nesting: no sub-process, one, two side by side, one in
\* another.
Trees == { <<>>, << <<>> >>, << <<>>, <<>> >>, << << <<>> >> >> }

\* A document: a process with one start event per symbol of d.starts, a
\* task (named "T" when d.named) whose outgoing names d.out, a gateway of
\* type d.gw (named "G" when d.named) with d.gouts outputs, an End event,
\* the sub-process when d.sub is a sequence of start symbols, and the flows
\* f0 to the task, f1 to d.target (opened and closed by tags of its own when
\* d.cond), f2 and f3 to the End event; after it the processes q1, q2, ...
\* of the shapes d.tops.
Document(d) ==
  Block(New("Definitions", "", "defs", NoName, NoName, NoName, NoName),
    Block(New("Process", "", "p", NoName, NoName, NoName, NoName),
      StartEvents(d.starts, Len(d.starts), "f0")
      \o Element(New("Activity", "Task", "t", IF d.named THEN "T" ELSE NoName, NoName, NoName, NoName),
                 NoSymbol, <<"f0">>, <<d.out>>)
      \o Element(New("Gateway", d.gw, "g", IF d.named THEN "G" ELSE NoName, NoName, NoName, NoName),
                 NoSymbol, <<"f1">>, IF d.gouts = 1 THEN <<"f2">> ELSE <<"f2", "f3">>)
      \o Element(New("Event", "End", "e", NoName, NoName, NoName, NoName),
                 NoSymbol, <<"f2", "f3">>, <<>>)
      \o (IF d.sub = <<"-">> THEN <<>> ELSE SubProcessBlock(d.sub))
      \o EmptyElement(SequenceFlow("f0", "t"))
      \o (IF d.cond
          THEN <<Call("add", SequenceFlow("f1", d.target), ""), Call("end", NoNode, "")>>
          ELSE EmptyElement(SequenceFlow("f1", d.target)))
      \o EmptyElement(SequenceFlow("f2", "e"))
      \o EmptyElement(SequenceFlow("f3", "e")))
    \o TreeBlocks(d.tops, Len(d.tops), "q", TRUE))

\* The callbacks registered, as <<kind, name>>, in the order of registration.
Registrations ==
  { <<>>,
    << <<"Task", "T">> >>,
    << <<"Exclusive", "G">> >>,
    << <<"Task", "T">>, <<"Exclusive", "G">> >>,
    << <<"Task", "T">>, <<"Inclusive", "G">> >>,
    << <<"Task", "T">>, <<"EventBased", "G">> >>,
    << <<"Task", "T">>, <<"Task", "G">> >>,
    << <<"Task", "t">>, <<"Exclusive", "g">> >>,
    << <<"Task", "t">>, <<"Inclusive", "g">>, <<"EventBased", "g">> >>,
    << <<"Exclusive", "G">>, <<"Task", "T">>, <<"Task", "T">> >>,
    << <<"Task", "G">>, <<"Exclusive", "G">>, <<"Task", "T">>, <<"Exclusive", "G">>,
       <<"Task", "G">> >>,
    << <<"Inclusive", "g">>, <<"Task", "t">>, <<"Task", "g">>, <<"Inclusive", "g">>,
       <<"Task", "t">> >> }

\* The callbacks registered after build, as <<kind, name>>.
LateRegistrations == { <<"Task", "T">>, <<"Exclusive", "late">>, <<"Inclusive", "G">> }

\* Every sequence of at most n symbols out of S.
SeqsUpTo(S, n) == UNION {[1..k -> S] : k \in 0..n}

BaseDocument ==
  [starts |-> <<NoSymbol>>, out |-> "f1", target |-> "g", cond |-> FALSE,
   gw |-> "Exclusive", gouts |-> 2, named |-> TRUE, sub |-> <<"-">>, tops |-> <<>>,
   regs |-> << <<"Task", "T">>, <<"Exclusive", "G">> >>]

\* The inputs of a build: the base document with its start events varied,
\* with its references varied, with its task, gateway and registrations
\* varied, and with a sub-process.
Documents ==
  {[BaseDocument EXCEPT !.starts = ss] : ss \in SeqsUpTo({NoSymbol, "Timer"}, MaxStarts)}
  \cup {[BaseDocument EXCEPT !.out = o, !.target = t, !.cond = c, !.sub = <<NoSymbol>>] :
          o \in {"f1", "zz", "e"}, t \in {"g", "zz", "inner_end"}, c \in BOOLEAN}
  \cup {[BaseDocument EXCEPT !.gw = g, !.gouts = n, !.named = nm, !.regs = r] :
          g \in {"Exclusive", "Inclusive", "EventBased", "Parallel"}, n \in 1..2,
          nm \in BOOLEAN, r \in Registrations}
  \cup {[BaseDocument EXCEPT !.sub = ss] : ss \in SeqsUpTo({NoSymbol, "Timer"}, 2)}
  \cup {[BaseDocument EXCEPT !.sub = ss, !.tops = ts] :
          ss \in {<<"-">>, <<NoSymbol>>}, ts \in SeqsUpTo(Trees, MaxTops)}

(***************************************************************************)
(* State.                                                                  *)
(***************************************************************************)
VARIABLES
  sc,          \* the scenario the Process was built from
  diagram,     \* Process.diagram: Diagram.data, the blocks of process data
  callbacks,   \* Process.handler: Handler.callbacks
  doc,         \* build: the document, and the calls the reader makes for it
  builder,     \* build: the DataBuilder
  pos,         \* build: how many of the calls have been made
  building,    \* build: the Process being built, or the error of the build
  parallel,    \* the build has the "parallel" feature
  debug,       \* the build has debug_assertions
  user_data,   \* the user data behind Data<T> = Arc<Mutex<T>>
  frames,      \* the live activations of execute, by id
  run_pc,      \* where run is: "iter", "exec" or "done"
  def_pos,     \* run: position in the Definitions block
  outcome,     \* what run returned
  exec_end,    \* what the last top-level execute returned
  outcomes,    \* what the earlier calls of run returned
  calls,       \* history: how often each callback has run in this run
  arrived,     \* history: Join results dispatched, by <<process, gateway>>
  fired,       \* history: joins fired, by <<process, gateway>>
  last_fire,   \* history: the fork record popped by the last firing
  parked       \* another call of run in flight on the same Process

buildvars == <<doc, builder, pos, building>>

vars ==
  <<doc, builder, pos, building, sc, diagram, callbacks, parallel, debug, user_data, frames, run_pc, def_pos, outcome,
    exec_end, outcomes, calls, arrived, fired, last_fire, parked>>

Count(f, k) == IF k \in DOMAIN f THEN f[k] ELSE 0

Bump(f, k) == IF k \in DOMAIN f THEN [f EXCEPT ![k] = @ + 1] ELSE f @@ (k :> 1)

NoOutcome == [ok |-> FALSE, err |-> "", data |-> ZeroData]

NoEnd == [process |-> NONE, event |-> NONE]

\* No other call of run is in flight.
NoCall == [call |-> 0]

NoFire == [process |-> NONE, gateway |-> NONE, joined |-> <<>>, created |-> 0]

\* TokenData::new
TokenData(created) == [created |-> created, joined |-> <<>>, consumed |-> 0]

\* A token of the round: the node it is on, and whether flow is running
\* ("flow"), waiting for execute of a sub-process ("sub") or has returned
\* res ("ret").
Token(id) == [cur |-> id, st |-> "flow", res |-> NoReturn]

\* History of an activation (not state of the code): which fork record
\* every frontier belongs to.  Fork records are numbered 1, 2, ... in the
\* order commit pushes them, 0 stands for no record.  stack: the numbers
\* of the records of token_stack; ready, active: for every frontier of
\* tokens_ready and of the round, the record pushed for it (own), or for
\* the output of a single-output join (imm) the record around the fork
\* that was joined; unc: for every uncommitted frontier the record of the
\* token that forked; parent: for every record the record around it;
\* last: the last Join or End consumed, the frontier (own, imm) of its token
\* and the record it was counted on (0: on none); ends: the End events
\* reached, in the order of dispatch; lost: tokens consumed with no record
\* on the stack at a gateway that waits for several.
NoHist ==
  [stack |-> <<>>, ready |-> <<>>, active |-> <<>>, unc |-> <<>>, parent |-> <<>>,
   last |-> [own |-> 0, imm |-> FALSE, record |-> 0, node |-> NONE], ends |-> <<>>,
   lost |-> 0, depth |-> 0]

Own(id, imm) == [own |-> id, imm |-> imm]

\* History of execute's first frontier: the start token is of no fork.
H_begin(h) == [h EXCEPT !.hist.ready = <<Own(0, FALSE)>>]

\* History of active_tokens.
H_take(h) == [h EXCEPT !.hist.active = h.hist.ready, !.hist.ready = <<>>]

\* History of a Fork dispatched for a token of frontier old.fi.
H_fork(old, h) == [h EXCEPT !.hist.unc = Append(@, old.hist.active[old.fi].own)]

\* History of a Join (node a gateway) or End (join = FALSE) dispatched for
\* a token of frontier old.fi.
H_consume(old, h, node, join) ==
  [h EXCEPT
     !.hist.last = [own |-> old.hist.active[old.fi].own,
                    imm |-> old.hist.active[old.fi].imm,
                    record |-> IF old.hist.stack = <<>> THEN 0
                               ELSE old.hist.stack[Len(old.hist.stack)],
                    node |-> node],
     !.hist.ends = IF join THEN @ ELSE Append(@, node),
     !.hist.lost = IF join /\ old.token_stack = <<>> THEN @ + 1 ELSE @]

\* History of tokens_consumed and of what execute does with its result:
\* kind is "immediate", "fork" or "" (nothing is made ready).
H_pop(old, h, kind) ==
  LET popped == Len(h.token_stack) < Len(old.token_stack)
      around == IF popped THEN old.hist.parent[old.hist.stack[Len(old.hist.stack)]] ELSE 0
  IN [h EXCEPT
        !.hist.stack = IF popped THEN SubSeq(@, 1, Len(@) - 1) ELSE @,
        !.hist.ready = IF kind = "immediate" THEN Append(@, Own(around, TRUE)) ELSE @,
        !.hist.unc = IF kind = "fork" THEN Append(@, around) ELSE @]

\* History of commit: the records pushed get the next numbers.
H_commit(old, h) ==
  LET n == Len(old.hist.parent)
      ids == [i \in DOMAIN old.uncommitted |-> n + i]
  IN [h EXCEPT
        !.hist.stack = @ \o ids,
        !.hist.ready = @ \o [i \in DOMAIN ids |-> Own(ids[i], FALSE)],
        !.hist.parent = @ \o old.hist.unc,
        !.hist.unc = <<>>,
        !.hist.depth = IF Len(h.token_stack) > @ THEN Len(h.token_stack) ELSE @]

\* An activation of execute on process data `process`, called by run
\* (parent.frame = 0) or by flow for token (f, t) of frame parent.frame.
NewFrame(process, parent) ==
  [process |-> process, parent |-> parent, pc |-> "start",
   tokens_ready |-> <<>>, uncommitted |-> <<>>, token_stack |-> <<>>,
   last_visited_end |-> NONE, active |-> <<>>, fi |-> 0, ti |-> 0,
   hist |-> NoHist]

ByRun == [frame |-> 0, f |-> 0, t |-> 0]

FreeFrames == (1..MaxFrames) \ DOMAIN frames

Without(f, k) == [x \in (DOMAIN f) \ {k} |-> f[x]]

\* No document: the process is given already built.
NoDocument == [d |-> [regs |-> <<>>], calls |-> <<>>]

\* The Process while it is read ("reading"), registered with ("Build"),
\* built ("Run") or failed ("Err").
Building(state, err) ==
  [state |-> state, err |-> err, diagram |-> <<>>, handler |-> NewHandler, missing |-> {},
   late |-> 0, again |-> ""]

Init ==
  /\ doc = NoDocument
  /\ builder = NewBuilder
  /\ pos = 0
  /\ building = [Building("Run", "") EXCEPT !.handler = Handler_build(@).h]
  /\ sc \in Scenarios
  /\ diagram = DiagramOf(sc)
  /\ callbacks = CallbacksOf(sc)
  /\ parallel \in BOOLEAN
  /\ debug \in BOOLEAN
  /\ user_data = ZeroData
  /\ frames = <<>>
  /\ run_pc = "iter"
  /\ def_pos = 0
  /\ outcome = NoOutcome
  /\ exec_end = NoEnd
  /\ outcomes = <<>>
  /\ calls = [i \in DOMAIN callbacks |-> 0]
  /\ arrived = <<>>
  /\ fired = <<>>
  /\ last_fire = NoFire
  /\ parked = NoCall

(***************************************************************************)
(* execute returns.                                                        *)
(***************************************************************************)
ResultOk(event) == [ok |-> TRUE, event |-> event, err |-> ""]
ResultErr(err) == [ok |-> FALSE, event |-> NONE, err |-> err]

\* The token of the caller after execute returned result for the sub-process
\* the token is on (the SubProcess arm of flow).
ResumedToken(fr, tok, result) ==
  IF ~result.ok
  THEN [tok EXCEPT !.st = "ret", !.res = ReturnErr(result.err)]
  ELSE LET pd == diagram[fr.process]
           activity == pd.data[tok.cur]
           end == diagram[activity.data_index].data[result.event]
           o == AfterSubProcess(pd, activity, end)
       IN IF o.k = "goto"
          THEN [tok EXCEPT !.st = "flow", !.cur = o.id]
          ELSE [tok EXCEPT !.st = "ret", !.res = o.res]

\* Variant (not the code): the return of a sub-process is also counted as
\* a token consumed in the activation of the flow that called it.
ExecuteReturns_consuming(fid, result) ==
  LET fr == frames[fid]
      p == fr.parent
  IN IF p.frame = 0
     THEN /\ frames' = Without(frames, fid)
          /\ IF result.ok
             THEN /\ exec_end' = [process |-> fr.process, event |-> result.event]
                  /\ run_pc' = "iter"
                  /\ outcome' = outcome
             ELSE /\ exec_end' = NoEnd
                  /\ run_pc' = "done"
                  /\ outcome' = [ok |-> FALSE, err |-> result.err, data |-> ZeroData]
     ELSE /\ frames' =
               [Without(frames, fid) EXCEPT
                  ![p.frame].active[p.f][p.t] =
                     ResumedToken(frames[p.frame], @, result),
                  ![p.frame].tokens_ready = Append(@, <<0>>)]
          /\ UNCHANGED <<exec_end, run_pc, outcome>>

\* execute of frame fid returns result: to run, which goes on with the next
\* process or returns the error, or to the flow that called it.
ExecuteReturns(fid, result) ==
  LET fr == frames[fid]
      p == fr.parent
  IN IF p.frame = 0
     THEN /\ frames' = Without(frames, fid)
          /\ IF result.ok
             THEN /\ exec_end' = [process |-> fr.process, event |-> result.event]
                  /\ run_pc' = "iter"
                  /\ outcome' = outcome
             ELSE /\ exec_end' = NoEnd
                  /\ run_pc' = "done"
                  /\ outcome' = [ok |-> FALSE, err |-> result.err, data |-> ZeroData]
     ELSE /\ frames' =
               [Without(frames, fid) EXCEPT
                  ![p.frame].active[p.f][p.t] =
                     ResumedToken(frames[p.frame], @, result)]
          /\ UNCHANGED <<exec_end, run_pc, outcome>>

(***************************************************************************)
(* ExecuteHandler (execute_handler.rs); its fields tokens_ready,           *)
(* uncommitted and token_stack are fields of the frame h.                  *)
(***************************************************************************)
\* Variant (not the code): the output of a single-output join is a pending
\* fork, with a record of its own.
immediate_pending(h, item) == [h EXCEPT !.uncommitted = Append(@, item)]

\* ExecuteHandler::immediate
immediate_dropping(h, item) == h

immediate(h, item) == [h EXCEPT !.tokens_ready = Append(@, item)]

\* Variant (not the code): the frontier of a fork is ready at once.
pending_fork_ready(h, item) == [h EXCEPT !.tokens_ready = Append(@, item)]

\* ExecuteHandler::pending_fork
pending_fork(h, item) == [h EXCEPT !.uncommitted = Append(@, item)]

\* ExecuteHandler::commit: every uncommitted frontier gets a fork record and
\* becomes ready.
commit(h) ==
  [h EXCEPT
     !.token_stack = @ \o [i \in DOMAIN h.uncommitted |-> TokenData(Len(h.uncommitted[i]))],
     !.tokens_ready = @ \o h.uncommitted,
     !.uncommitted = <<>>]

\* TokenData::consume
consume(token_data, maybe_gateway) ==
  [token_data EXCEPT
     !.joined = IF maybe_gateway # NONE THEN Append(@, maybe_gateway) ELSE @,
     !.consumed = @ + 1]

\* ExecuteHandler::consume_token: counted on the last record of the stack,
\* if there is one.
consume_token(h, join) ==
  IF h.token_stack # <<>>
  THEN [h EXCEPT !.token_stack[Len(h.token_stack)] = consume(@, join)]
  ELSE h

\* TokenData::consumed: created.saturating_sub(consumed) == 0
consumed(token_data) == token_data.created <= token_data.consumed

\* check_unbalanced_diagram that accepts every record.
check_unbalanced_diagram_never(input) == FALSE

\* check_unbalanced_diagram: more than one distinct gateway was joined.
check_unbalanced_diagram(input) == Cardinality(Range(input)) > 1

\* tokens_consumed, its test of a parallel gateway: fewer entries were joined
\* than the first gateway joined has inputs.
not_enough_tokens_never(pd, gateway, gateways) == FALSE

not_enough_tokens_any_type(pd, gateway, gateways) ==
  /\ gateway # NONE
  /\ Len(gateways) < pd.data[gateway].inputs

not_enough_tokens(pd, gateway, gateways) ==
  /\ gateway # NONE
  /\ pd.data[gateway].ty = "Parallel"
  /\ Len(gateways) < pd.data[gateway].inputs

\* ExecuteHandler::tokens_consumed: when the last record is fully consumed
\* it is popped and the first gateway joined is returned, unless a parallel
\* gateway got fewer entries than it has inputs or (debug_assertions) the
\* record joined different gateways.
tokens_consumed(h, pd, dbg) ==
  LET stack == h.token_stack
      none == [handler |-> h, err |-> "", gateway |-> NONE, popped |-> TokenData(0)]
  IN IF stack # <<>> /\ consumed(stack[Len(stack)])
     THEN LET token_data == stack[Len(stack)]
              gateways == token_data.joined
              gateway == IF gateways = <<>> THEN NONE ELSE gateways[1]
              popped == [none EXCEPT !.handler.token_stack = SubSeq(stack, 1, Len(stack) - 1),
                                     !.popped = token_data]
          IN IF not_enough_tokens(pd, gateway, gateways)
             THEN [popped EXCEPT !.err = "BpmnRequirement"]
             ELSE IF dbg /\ check_unbalanced_diagram(gateways)
                  THEN [popped EXCEPT !.err = "NotSupported"]
                  ELSE [popped EXCEPT !.gateway = gateway]
     ELSE none

(***************************************************************************)
(* execute (engine.rs), one activation per frame.                          *)
(***************************************************************************)
UnchangedRun == UNCHANGED <<exec_end, run_pc, outcome>>

UnchangedHistory == UNCHANGED <<calls, arrived, fired, last_fire>>

UnchangedBuild == UNCHANGED <<buildvars, sc, diagram, callbacks, parallel, debug, def_pos, outcomes, parked>>

\* The effect of running callback cb (NONE: no callback ran).
Ran(cb) ==
  /\ user_data' = IF cb # NONE THEN CallbackData(callbacks[cb], user_data) ELSE user_data
  /\ calls' = IF cb # NONE THEN [calls EXCEPT ![cb] = @ + 1] ELSE calls

\* execute begins: the start event is the first ready frontier.
ExecuteBegin(fid) ==
  LET fr == frames[fid]
      start == diagram[fr.process].start
  IN /\ fr.pc = "start"
     /\ IF start = NONE
        THEN ExecuteReturns(fid, ResultErr("MissingStartEvent"))
        ELSE /\ frames' = [frames EXCEPT
                          ![fid] = H_begin([fr EXCEPT !.tokens_ready = <<<<start>>>>,
                                                      !.pc = "loop"])]
             /\ UnchangedRun
     /\ UNCHANGED user_data
     /\ UnchangedHistory
     /\ UnchangedBuild

\* The phase of a round whose next frontier is fi.
RoundPc(active, fi) ==
  IF fi = 0 THEN "commit"
  ELSE IF Len(active[fi]) = 0 THEN "consumed" ELSE "round"

\* The top of the loop: take the ready frontiers; with none left execute
\* returns the last end event visited.
ActiveTokens(fid) ==
  LET fr == frames[fid]
      ready == fr.tokens_ready
      active == [f \in DOMAIN ready |-> [t \in DOMAIN ready[f] |-> Token(ready[f][t])]]
  IN /\ fr.pc = "loop"
     /\ IF ready = <<>>
        THEN ExecuteReturns(fid, IF fr.last_visited_end = NONE
                                 THEN ResultErr("MissingEndEvent")
                                 ELSE ResultOk(fr.last_visited_end))
        ELSE /\ frames' = [frames EXCEPT
                          ![fid] = H_take([fr EXCEPT !.tokens_ready = <<>>,
                                                     !.active = active,
                                                     !.fi = Len(active),
                                                     !.ti = 1,
                                                     !.pc = RoundPc(active, Len(active))])]
             /\ UnchangedRun
     /\ UNCHANGED user_data
     /\ UnchangedHistory
     /\ UnchangedBuild

\* Whether flow may run for token (f, t): without the parallel feature the
\* flows are evaluated lazily, each right before its result is dispatched;
\* with it, all flows of the round run, in any interleaving.
MayFlow(fr, f, t) == parallel \/ (f = fr.fi /\ t = fr.ti)

\* One pass of the loop of flow for token (f, t).
Flow(fid, f, t) ==
  LET fr == frames[fid]
      tok == fr.active[f][t]
      pd == diagram[fr.process]
  IN /\ fr.pc = "round"
     /\ tok.st = "flow"
     /\ MayFlow(fr, f, t)
     /\ \E o \in FlowNode(diagram, pd, callbacks, tok.cur, user_data) :
          /\ Ran(o.cb)
          /\ CASE o.k = "goto" ->
                    frames' = [frames EXCEPT ![fid].active[f][t].cur = o.id]
               [] o.k = "ret" ->
                    frames' = [frames EXCEPT ![fid].active[f][t].st = "ret",
                                             ![fid].active[f][t].res = o.res]
               [] OTHER ->
                    /\ FreeFrames # {}
                    /\ LET n == CHOOSE i \in FreeFrames : \A j \in FreeFrames : i <= j
                       IN frames' = [frames EXCEPT ![fid].active[f][t].st = "sub"]
                                    @@ (n :> NewFrame(o.id, [frame |-> fid, f |-> f, t |-> t]))
     /\ UnchangedRun
     /\ UNCHANGED <<arrived, fired, last_fire>>
     /\ UnchangedBuild

\* execute, the pattern its loop matches an End event against: the symbol is
\* Terminate or Cancel.
is_terminating(event) == event.ty = "End" /\ event.symbol \in {"Terminate", "Cancel"}

\* Whether the result of token (fi, ti) may be dispatched: with the parallel
\* feature the results of the round are collected first.
MayDispatch(fr) ==
  /\ fr.ti \in DOMAIN fr.active[fr.fi]
  /\ fr.active[fr.fi][fr.ti].st = "ret"
  /\ parallel =>
       \A f \in DOMAIN fr.active : \A t \in DOMAIN fr.active[f] : fr.active[f][t].st = "ret"

\* The frame after the result of token (fi, ti) has been dispatched.
Dispatched(fr, h) ==
  [h EXCEPT !.ti = fr.ti + 1,
            !.pc = IF fr.ti + 1 > Len(fr.active[fr.fi]) THEN "consumed" ELSE "round"]

\* Variant (not the code): the first End event visited is kept.
replace_end_keeping(last_visited_end, event) ==
  IF last_visited_end = NONE THEN event ELSE last_visited_end

\* last_visited_end.replace(event)
replace_end(last_visited_end, event) == event

\* The body of the dispatch loop for the result of token (fi, ti).
Dispatch(fid) ==
  LET fr == frames[fid]
      r == fr.active[fr.fi][fr.ti].res
      pd == diagram[fr.process]
  IN /\ fr.pc = "round"
     /\ MayDispatch(fr)
     /\ CASE r.t = "Join" ->
               /\ frames' = [frames EXCEPT ![fid] =
                      H_consume(fr, Dispatched(fr, consume_token(fr, r.node)), r.node, TRUE)]
               /\ arrived' = Bump(arrived, <<fr.process, r.node>>)
               /\ UnchangedRun
          [] r.t = "End" ->
               /\ IF is_terminating(pd.data[r.node])
                  THEN ExecuteReturns(fid, ResultOk(r.node))
                  ELSE /\ frames' = [frames EXCEPT ![fid] =
                              H_consume(fr, Dispatched(fr, consume_token([fr EXCEPT !.last_visited_end = replace_end(@, r.node)], NONE)),
                                        r.node, FALSE)]
                       /\ UnchangedRun
               /\ UNCHANGED arrived
          [] r.t = "Fork" ->
               /\ frames' = [frames EXCEPT ![fid] =
                      H_fork(fr, Dispatched(fr, pending_fork(fr, r.ids)))]
               /\ UNCHANGED arrived
               /\ UnchangedRun
          [] OTHER ->
               /\ ExecuteReturns(fid, ResultErr(r.err))
               /\ UNCHANGED arrived
     /\ UNCHANGED <<user_data, calls, fired, last_fire>>
     /\ UnchangedBuild

\* The frame after the frontier fi has been dealt with.
NextFrontier(fr, h) ==
  [h EXCEPT !.fi = fr.fi - 1, !.ti = 1, !.pc = RoundPc(fr.active, fr.fi - 1)]

\* After the results of a frontier: when the last fork record is fully
\* consumed, the gateway its tokens joined proceeds with its outputs.
TokensConsumed(fid) ==
  LET fr == frames[fid]
      pd == diagram[fr.process]
      tc == tokens_consumed(fr, pd, debug)
      h == tc.handler
      gateway == pd.data[tc.gateway]
      outputs == gateway.outputs
      fire == [process |-> fr.process, gateway |-> tc.gateway,
               joined |-> tc.popped.joined, created |-> tc.popped.created]
      Fired == /\ fired' = Bump(fired, <<fr.process, tc.gateway>>)
               /\ last_fire' = fire
  IN /\ fr.pc = "consumed"
     /\ CASE tc.err # "" ->
               /\ ExecuteReturns(fid, ResultErr(tc.err))
               /\ UNCHANGED <<user_data, calls, fired, last_fire>>
          [] tc.gateway = NONE ->
               /\ frames' = [frames EXCEPT ![fid] = H_pop(fr, NextFrontier(fr, h), "")]
               /\ UnchangedRun
               /\ UNCHANGED <<user_data, calls, fired, last_fire>>
          [] gateway.ty \in {"Parallel", "Inclusive"} /\ Len(outputs) = 1 ->
               /\ frames' = [frames EXCEPT ![fid] =
                      H_pop(fr, NextFrontier(fr, immediate(h, outputs)), "immediate")]
               /\ Fired
               /\ UnchangedRun
               /\ UNCHANGED <<user_data, calls>>
          [] gateway.ty = "Parallel" ->
               /\ frames' = [frames EXCEPT ![fid] =
                      H_pop(fr, NextFrontier(fr, pending_fork(h, outputs)), "fork")]
               /\ Fired
               /\ UnchangedRun
               /\ UNCHANGED <<user_data, calls>>
          [] gateway.ty = "Inclusive" ->
               \E o \in handle_inclusive_gateway(pd, gateway, callbacks, user_data) :
                 /\ Ran(o.cb)
                 /\ IF o.res.t = "Err"
                    THEN /\ ExecuteReturns(fid, ResultErr(o.res.err))
                         /\ UNCHANGED <<fired, last_fire>>
                    ELSE /\ frames' = [frames EXCEPT ![fid] =
                                H_pop(fr, NextFrontier(fr, pending_fork(h, o.res.ids)), "fork")]
                         /\ Fired
                         /\ UnchangedRun
          [] OTHER ->
               /\ frames' = [frames EXCEPT ![fid] = H_pop(fr, NextFrontier(fr, h), "")]
               /\ UnchangedRun
               /\ UNCHANGED <<user_data, calls, fired, last_fire>>
     /\ UNCHANGED arrived
     /\ UnchangedBuild

\* The end of a round: commit the forks of the round.
Commit(fid) ==
  LET fr == frames[fid]
  IN /\ fr.pc = "commit"
     /\ frames' = [frames EXCEPT ![fid] =
            H_commit(fr, [commit(fr) EXCEPT !.pc = "loop", !.active = <<>>])]
     /\ UnchangedRun
     /\ UNCHANGED user_data
     /\ UnchangedHistory
     /\ UnchangedBuild

(***************************************************************************)
(* run (process.rs): execute every process of the Definitions block.       *)
(***************************************************************************)
\* Diagram::get_definition: the last block.
get_definition(d) == IF DOMAIN d = {} THEN NONE ELSE VecLen(d) - 1

RunFails(err) ==
  /\ outcome' = [ok |-> FALSE, err |-> err, data |-> ZeroData]
  /\ run_pc' = "done"
  /\ UNCHANGED <<frames, def_pos>>

\* One pass of the loop of run, or its end.
RunIter ==
  /\ run_pc = "iter"
  /\ DOMAIN frames = {}
  /\ IF get_definition(diagram) = NONE
     THEN RunFails("MissingDefinitionsId")
     ELSE LET def == diagram[get_definition(diagram)].data
          IN IF def_pos \notin DOMAIN def
             THEN /\ outcome' = [ok |-> TRUE, err |-> "", data |-> user_data]
                  /\ run_pc' = "done"
                  /\ UNCHANGED <<frames, def_pos>>
             ELSE LET bpmn == def[def_pos]
                  IN IF bpmn.bpmn = "Process" /\ bpmn.data_index # NONE
                     THEN IF get_process(diagram, bpmn.data_index) = NONE
                          THEN RunFails("MissingProcessData")
                          ELSE /\ frames' = (1 :> NewFrame(bpmn.data_index, ByRun))
                               /\ def_pos' = def_pos + 1
                               /\ run_pc' = "exec"
                               /\ UNCHANGED outcome
                     ELSE /\ def_pos' = def_pos + 1
                          /\ UNCHANGED <<frames, run_pc, outcome>>
  /\ UNCHANGED <<buildvars, sc, diagram, callbacks, parallel, debug, user_data, exec_end, outcomes, parked>>
  /\ UnchangedHistory

\* run is called again on the same built process, with the same input.
RunAgain ==
  /\ run_pc = "done"
  /\ Len(outcomes) + 1 < MaxRuns
  /\ parked = NoCall
  /\ outcomes' = Append(outcomes, [outcome |-> outcome, exec_end |-> exec_end])
  /\ user_data' = ZeroData
  /\ run_pc' = "iter"
  /\ def_pos' = 0
  /\ outcome' = NoOutcome
  /\ exec_end' = NoEnd
  /\ calls' = [i \in DOMAIN callbacks |-> 0]
  /\ arrived' = <<>>
  /\ fired' = <<>>
  /\ last_fire' = NoFire
  /\ UNCHANGED <<buildvars, sc, diagram, callbacks, parallel, debug, frames, parked>>

\* The user data the calls of run are given: the first call (and every
\* repeated call) ZeroData, a call made while another is in flight data
\* that differs from it.
Input(call) == IF call = 2 THEN [ZeroData EXCEPT !["c"] = 1] ELSE ZeroData

\* Everything a call of run owns: the user data it was given (moved into
\* an Arc<Mutex<T>> of its own), the activations of execute with their
\* ExecuteData (worklists and fork-record stack), its position in the
\* Definitions block and what it returns, with the history kept of it.
CallState(call) ==
  [call |-> call, user_data |-> user_data, frames |-> frames, run_pc |-> run_pc,
   def_pos |-> def_pos, outcome |-> outcome, exec_end |-> exec_end,
   calls |-> calls, arrived |-> arrived, fired |-> fired, last_fire |-> last_fire]

\* The call whose steps are taken now.
Running == IF parked = NoCall THEN 1 ELSE 3 - parked.call

\* Variant (not the code): the calls share one user data.
Data_shared(own, other) == other

\* The user data a call goes on with when it is resumed: its own.
Data_of(own, other) == own

\* The scenarios in which run is called concurrently.
Concurrent == {"multi", "fan"}

\* A second thread calls run(&self, data) on the same Process while the
\* first call is in flight (or has returned); the first call is parked.
RunConcurrently ==
  /\ parked = NoCall
  /\ outcomes = <<>>
  /\ sc.name \in Concurrent
  /\ parked' = CallState(1)
  /\ user_data' = Input(2)
  /\ frames' = <<>>
  /\ run_pc' = "iter"
  /\ def_pos' = 0
  /\ outcome' = NoOutcome
  /\ exec_end' = NoEnd
  /\ calls' = [i \in DOMAIN callbacks |-> 0]
  /\ arrived' = <<>>
  /\ fired' = <<>>
  /\ last_fire' = NoFire
  /\ UNCHANGED <<buildvars, sc, diagram, callbacks, parallel, debug, outcomes>>

\* The scheduler takes the running thread off and resumes the other: the
\* steps of the two calls interleave in every way.
Switch ==
  /\ parked # NoCall
  /\ parked' = CallState(Running)
  /\ user_data' = Data_of(parked.user_data, user_data)
  /\ frames' = parked.frames
  /\ run_pc' = parked.run_pc
  /\ def_pos' = parked.def_pos
  /\ outcome' = parked.outcome
  /\ exec_end' = parked.exec_end
  /\ calls' = parked.calls
  /\ arrived' = parked.arrived
  /\ fired' = parked.fired
  /\ last_fire' = parked.last_fire
  /\ UNCHANGED <<buildvars, sc, diagram, callbacks, parallel, debug, outcomes>>

Next ==
  \/ \E fid \in DOMAIN frames : ExecuteBegin(fid)
  \/ \E fid \in DOMAIN frames : ActiveTokens(fid)
  \/ \E fid \in DOMAIN frames :
       \E f \in DOMAIN frames[fid].active :
         \E t \in DOMAIN frames[fid].active[f] : Flow(fid, f, t)
  \/ \E fid \in DOMAIN frames : Dispatch(fid)
  \/ \E fid \in DOMAIN frames : TokensConsumed(fid)
  \/ \E fid \in DOMAIN frames : Commit(fid)
  \/ RunIter
  \/ RunAgain
  \/ RunConcurrently
  \/ Switch

Spec == Init /\ [][Next]_vars

\* run is an ordinary function call: once called, it carries on until it
\* returns (whether it is called again is up to the caller); a thread that
\* is taken off and put on again has not carried on.
RunProgress == run_pc # "done" /\ Next /\ parked' = parked

FairSpec == Spec /\ WF_vars(RunProgress)

(***************************************************************************)
(* The build: Process::new reads the document (the reader calls the        *)
(* builder, one call per step), callbacks are registered, and build        *)
(* installs them.                                                          *)
(***************************************************************************)
runvars ==
  <<sc, diagram, callbacks, parallel, debug, user_data, frames, run_pc, def_pos,
    outcome, exec_end, outcomes, calls, arrived, fired, last_fire, parked>>

BuildInit ==
  /\ \E d \in Documents : doc = [d |-> d, calls |-> Document(d)]
  /\ builder = NewBuilder
  /\ pos = 0
  /\ building = Building("reading", "")
  /\ sc = Scenario("", 0, FALSE)
  /\ diagram = <<>>
  /\ callbacks = <<>>
  /\ parallel = FALSE
  /\ debug = FALSE
  /\ user_data = ZeroData
  /\ frames = <<>>
  /\ run_pc = "build"
  /\ def_pos = 0
  /\ outcome = NoOutcome
  /\ exec_end = NoEnd
  /\ outcomes = <<>>
  /\ calls = <<>>
  /\ arrived = <<>>
  /\ fired = <<>>
  /\ last_fire = NoFire
  /\ parked = NoCall

\* The reader is about to make the call op.
Reading(op) ==
  /\ building.state = "reading"
  /\ pos < Len(doc.calls)
  /\ doc.calls[pos + 1].op = op

\* The call has been made with result r: an error ends the build (the ? of
\* the reader and of Process::new).
Called(r) ==
  /\ builder' = r.b
  /\ pos' = pos + 1
  /\ building' = IF r.err = "" THEN building ELSE Building("Err", r.err)
  /\ UNCHANGED <<doc, runvars>>

Add == Reading("add") /\ Called(DataBuilder_add(builder, doc.calls[pos + 1].bpmn))

AddNewProcess ==
  Reading("add_new_process") /\ Called(add_new_process(builder, doc.calls[pos + 1].bpmn))

AddToProcess ==
  Reading("add_to_process") /\ Called(add_to_process(builder, doc.calls[pos + 1].bpmn))

UpdateSymbol ==
  Reading("update_symbol") /\ Called(update_symbol(builder, doc.calls[pos + 1].arg))

AddText == Reading("add_text") /\ Called(add_text(builder, doc.calls[pos + 1].arg))

AddDirection ==
  Reading("add_direction") /\ Called(add_direction(builder, doc.calls[pos + 1].arg))

End == Reading("end") /\ Called(DataBuilder_end(builder))

EndProcess == Reading("end_process") /\ Called(end_process(builder))

\* The document is read: Diagram::from(builder), and Process::new returns
\* the Process with it.
IntoDiagram ==
  /\ building.state = "reading"
  /\ pos = Len(doc.calls)
  /\ building' = [building EXCEPT !.state = "Build", !.diagram = Vec(builder.data)]
  /\ UNCHANGED <<doc, builder, pos, runvars>>

\* Process::task, exclusive, inclusive, event_based: the next registration.
Register ==
  LET n == Len(building.handler.callbacks)
  IN /\ building.state = "Build"
     /\ n < Len(doc.d.regs)
     /\ building' = [building EXCEPT
                       !.handler = add_callback(@, doc.d.regs[n + 1][2], doc.d.regs[n + 1][1])]
     /\ UNCHANGED <<doc, builder, pos, runvars>>

\* Process::build
Build ==
  LET taken == Handler_build(building.handler)
      result == install_and_check(building.diagram, taken.map)
  IN /\ building.state = "Build"
     /\ Len(building.handler.callbacks) = Len(doc.d.regs)
     /\ building' =
          IF taken.err # ""
          THEN Building("Err", taken.err)
          ELSE IF result.missing = {}
          THEN [building EXCEPT !.state = "Run", !.diagram = result.data, !.handler = taken.h]
          ELSE [Building("Err", "MissingImplementations") EXCEPT !.missing = result.missing]
     /\ UNCHANGED <<doc, builder, pos, runvars>>

\* Handler::add_callback on the handler of the built Process, whose handler
\* map build has taken (late counts these calls).
RegisterLate ==
  /\ building.state = "Run"
  /\ building.late < MaxLate
  /\ \E reg \in LateRegistrations :
       building' = [building EXCEPT !.handler = add_callback(@, reg[2], reg[1]),
                                    !.late = @ + 1]
  /\ UNCHANGED <<doc, builder, pos, runvars>>

\* Handler::build on the handler of the built Process (again keeps what it
\* returned: "Ok" or the error).
BuildAgain ==
  LET taken == Handler_build(building.handler)
  IN /\ building.state = "Run"
     /\ building.again = ""
     /\ building' = [building EXCEPT !.handler = taken.h,
                                      !.again = IF taken.err = "" THEN "Ok" ELSE taken.err]
     /\ UNCHANGED <<doc, builder, pos, runvars>>

BuildNext ==
  \/ Add
  \/ AddNewProcess
  \/ AddToProcess
  \/ UpdateSymbol
  \/ AddText
  \/ AddDirection
  \/ End
  \/ EndProcess
  \/ IntoDiagram
  \/ Register
  \/ Build
  \/ RegisterLate
  \/ BuildAgain

BuildSpec == BuildInit /\ [][BuildNext]_vars

(***************************************************************************)
(* Properties.                                                             *)
(***************************************************************************)
\* run has returned.
Done == run_pc = "done"

\* What run returned, with the end event of the last process executed.
Result == [outcome |-> outcome, exec_end |-> exec_end]

Failed(err) == Done /\ ~outcome.ok /\ outcome.err = err

\* run succeeded and the last process ended at event.
EndedAt(event) == Done /\ outcome.ok /\ exec_end.event = event

\* The parallel gateways that are joins of at least two inputs, as
\* <<process, gateway>>.
ParallelJoins ==
  UNION {{<<p, g>> : g \in {i \in DOMAIN diagram[p].data :
                              /\ diagram[p].data[i].bpmn = "Gateway"
                              /\ diagram[p].data[i].ty = "Parallel"
                              /\ diagram[p].data[i].inputs >= 2}} :
         p \in DOMAIN diagram}

Inputs(key) == diagram[key[1]].data[key[2]].inputs

\* The last firing was of the join key, from the record of a fork that
\* created as many tokens as the join has inputs, none of which joined
\* another gateway.
FiredFromOneFork(key) ==
  /\ last_fire.process = key[1]
  /\ last_fire.gateway = key[2]
  /\ last_fire.created = Inputs(key)
  /\ \A i \in DOMAIN last_fire.joined : last_fire.joined[i] = key[2]

ShortJoinIsBpmnRequirement ==
  \A key \in ParallelJoins :
    /\ Count(fired, key) * Inputs(key) <= Count(arrived, key)
    /\ (Done /\ sc.name # "terminate" /\ Count(arrived, key) > Count(fired, key) * Inputs(key))
         => Failed("BpmnRequirement")

\* Token (f, t) of activation fid has reached an End event whose symbol is
\* Terminate or Cancel.
ReachedTerminating(fid, f, t) ==
  LET fr == frames[fid]
  IN /\ fr.active[f][t].st = "ret"
     /\ fr.active[f][t].res.t = "End"
     /\ diagram[fr.process].data[fr.active[f][t].res.node].symbol \in {"Terminate", "Cancel"}

\* The step returns from activation fid with its end event event: no
\* callback runs, no token moves, and when run called it, that event is the
\* one run gets.
ReturnsWith(fid, event) ==
  /\ fid \notin DOMAIN frames'
  /\ calls' = calls
  /\ user_data' = user_data
  /\ frames[fid].parent.frame = 0 =>
       exec_end' = [process |-> frames[fid].process, event |-> event]

\* C3: once a token has reached a Terminate or Cancel end event, the next
\* step is the return of execute with that event; no token is advanced and
\* no callback is run in between.
TerminateStopsAtOnce ==
  [][\A fid \in DOMAIN frames :
       \A f \in DOMAIN frames[fid].active : \A t \in DOMAIN frames[fid].active[f] :
         ReachedTerminating(fid, f, t) =>
           ReturnsWith(fid, frames[fid].active[f][t].res.node)]_vars

\* C4: every call of run on the same built process from the same user data
\* returns the same result.
RunsAgree ==
  Done => \A i \in DOMAIN outcomes : outcomes[i] = Result

\* The End event of the sub-process of the subprocess scenario, and the
\* process with the SubProcess activity (node 2).
InnerEnd == diagram[0].data[2]

Outer == diagram[1]

\* The boundary events attached to the SubProcess activity that have the
\* symbol and the name of the End event the sub-process ended at.
MatchingBoundaries ==
  {i \in DOMAIN Outer.data :
     /\ Outer.data[i].bpmn = "Event"
     /\ Outer.data[i].ty = "Boundary"
     /\ Outer.data[i].attached_to_ref = 2
     /\ Outer.data[i].symbol = InnerEnd.symbol
     /\ Outer.data[i].name = InnerEnd.name}

\* The End event behind boundary event b.
EndBehind(b) == Outer.data[Outer.data[b].outputs[1]].target_ref

\* C5: a sub-process that ended at an End event with the symbol Error,
\* Escalation, Signal, Message, Timer, Conditional, Cancel or Compensation
\* makes the parent go on at a boundary event of the SubProcess activity
\* with that symbol and that name (the run ends at the End behind it, not at
\* the End behind the activity's own output); without such a boundary the
\* run fails with MissingBoundary.
SubProcessRoutesToBoundary ==
  (sc.name = "subprocess" /\ Done /\
   InnerEnd.symbol \in {"Error", "Escalation", "Signal", "Message", "Timer",
                        "Conditional", "Cancel", "Compensation"})
    => IF MatchingBoundaries = {}
       THEN Failed("MissingBoundary")
       ELSE /\ outcome.ok
            /\ exec_end.event \in {EndBehind(b) : b \in MatchingBoundaries}
            /\ exec_end.event # 4

SubProcessRouted ==
  /\ sc.name = "subprocess"
  /\ InnerEnd.symbol = "Error"
  /\ InnerEnd.name = "e"
  /\ MatchingBoundaries # {}
  /\ Done
  /\ outcome.ok
  /\ Outer.data[exec_end.event].name = "Error"

\* C6 as stated: with the boundary event named "fail" and the task callback
\* returning Boundary::Symbol(Error), the run goes on along the outputs of
\* the boundary event, to the End "handled".
SymbolRoutesToNamedBoundary ==
  (sc.name = "boundary" /\ sc.d /\ BoundaryRets[sc.v] = BoundarySymbol("Error") /\ Done)
    => EndedAt(7)

\* C6, amended: the run goes on along the outputs of the Error boundary
\* event (and not along the outputs of the task) when the callback returns
\* the boundary's symbol together with the boundary's name:
\* Boundary::NameSymbol("fail", Error) for the boundary named "fail",
\* Boundary::Symbol(Error) for an unnamed one; Boundary::Symbol(Error) with
\* the boundary named "fail" fails with MissingBoundary.
BoundaryOnError ==
  (sc.name = "boundary" /\ Done) =>
    CASE sc.d /\ BoundaryRets[sc.v] = BoundaryNameSymbol("fail", "Error") ->
           EndedAt(7) /\ calls[0] = 1
      [] ~sc.d /\ BoundaryRets[sc.v] = BoundarySymbol("Error") ->
           EndedAt(7) /\ calls[0] = 1
      [] sc.d /\ BoundaryRets[sc.v] = BoundarySymbol("Error") ->
           Failed("MissingBoundary")
      [] OTHER -> TRUE

BoundaryTaken ==
  /\ sc.name = "boundary"
  /\ sc.d
  /\ BoundaryRets[sc.v] = BoundaryNameSymbol("fail", "Error")
  /\ EndedAt(7)
  /\ calls[0] = 1

\* C7 as stated: the counter, with "YES" leading back to the task and "NO"
\* to End, ends at End with count = 3.
CounterEndsAtThree ==
  (sc.name = "counter" /\ sc.v = 1 /\ Done) => (EndedAt(7) /\ outcome.data["count"] = 3)

\* C7, amended: the counter, with "YES" leading back to the task and "NO"
\* to End, ends at the End reached by "NO" with count = 1, the task and the
\* gateway callback having run once each.
CounterEndsAtOne ==
  (sc.name = "counter" /\ sc.v = 1 /\ Done)
    => (EndedAt(7) /\ outcome.data["count"] = 1 /\ calls[0] = 1 /\ calls[1] = 1)

CounterEnded ==
  /\ sc.name = "counter"
  /\ sc.v = 1
  /\ EndedAt(7)
  /\ outcome.data["count"] = 1

\* The frontiers of activation fid that are forked or ready but not taken up.
Frontiers(fid) == Range(frames[fid].uncommitted) \cup Range(frames[fid].tokens_ready)

\* The fork records of all activations.
ForkRecords == UNION {Range(frames[fid].token_stack) : fid \in DOMAIN frames}

\* The value the inclusive callback of the inclusive scenario returns.
Selected == InclusiveWiths[sc.v]

\* C8: an inclusive fork whose callback returns With::Default or With::Fork
\* of no value forks into one flow, the default flow of the gateway (only
\* the branch behind it runs, once, and the fork record counts one token);
\* without a default flow the run fails with MissingDefault.
InclusiveTakesDefault ==
  (sc.name = "inclusive" /\ Selected \in {WithDefault, WithFork(<<>>)}) =>
    /\ \A fid \in DOMAIN frames : \A i \in DOMAIN frames[fid].uncommitted :
         frames[fid].uncommitted[i] = <<diagram[0].data[2].default>>
    /\ \A token_data \in ForkRecords : token_data.created = 1
    /\ calls[0] = 0 /\ calls[1] = 0
    /\ Done => IF sc.d
               THEN EndedAt(14) /\ calls[2] = 1
               ELSE Failed("MissingDefault") /\ calls[2] = 0

InclusiveTookDefault ==
  /\ sc.name = "inclusive"
  /\ Selected = WithFork(<<>>)
  /\ sc.d
  /\ EndedAt(14)
  /\ calls[2] = 1

\* C9: an inclusive fork whose callback returns With::Fork with repeated
\* entries forks into each selected flow once: no frontier holds a flow
\* twice, for [A, A, B] the frontier is the flows A and B, the fork record
\* counts two tokens and the branches A and B run once each; for a flow
\* given by its id and by its name the frontier is that one flow.
InclusiveForkIsDeduplicated ==
  sc.name = "inclusive" =>
    /\ \A fid \in DOMAIN frames : \A frontier \in Frontiers(fid) :
         Len(frontier) = Cardinality(Range(frontier))
    /\ Selected = WithFork(<<"A", "A", "B">>) =>
         /\ \A fid \in DOMAIN frames : \A i \in DOMAIN frames[fid].uncommitted :
              /\ Range(frames[fid].uncommitted[i]) = {3, 4}
              /\ Len(frames[fid].uncommitted[i]) = 2
         /\ \A token_data \in ForkRecords : token_data.created = 2
         /\ calls[2] = 0
         /\ Done => EndedAt(14) /\ calls[0] = 1 /\ calls[1] = 1
    /\ Selected = WithFork(<<"fa", "A">>) =>
         /\ \A fid \in DOMAIN frames : \A i \in DOMAIN frames[fid].uncommitted :
              frames[fid].uncommitted[i] = <<3>>
         /\ \A token_data \in ForkRecords : token_data.created = 1
         /\ Done => EndedAt(14) /\ calls[0] = 1 /\ calls[1] = 0 /\ calls[2] = 0

InclusiveForkDeduplicated ==
  /\ sc.name = "inclusive"
  /\ Selected = WithFork(<<"A", "A", "B">>)
  /\ EndedAt(14)
  /\ outcome.data["a"] = 1
  /\ outcome.data["b"] = 1

\* C10: inclusive selection: with the callback returning Fork(["A", "C"])
\* the callbacks of the branches A and C run once each and the one of B
\* never, the inclusive join (inputs = 3) fires once, when two tokens have
\* arrived, and the run ends at the End event, which has no symbol.
InclusiveSelection ==
  (sc.name = "inclusive" /\ Selected = WithFork(<<"A", "C">>)) =>
    /\ calls[0] <= 1 /\ calls[1] = 0 /\ calls[2] <= 1
    /\ Count(arrived, <<0, 12>>) <= 2
    /\ Count(fired, <<0, 12>>) <= 1
    /\ Count(fired, <<0, 12>>) = 1 => Count(arrived, <<0, 12>>) = 2
    /\ Done =>
         /\ EndedAt(14)
         /\ diagram[0].data[14].symbol = NoSymbol
         /\ calls[0] = 1 /\ calls[2] = 1
         /\ outcome.data["a"] = 1 /\ outcome.data["b"] = 0 /\ outcome.data["c"] = 1
         /\ Count(fired, <<0, 12>>) = 1

InclusiveSelected ==
  /\ sc.name = "inclusive"
  /\ Selected = WithFork(<<"A", "C">>)
  /\ EndedAt(14)
  /\ Count(arrived, <<0, 12>>) = 2
  /\ Count(fired, <<0, 12>>) = 1

\* A token of the fan stands on the End event, or the End event has been
\* visited.
FanEndReached ==
  \E fid \in DOMAIN frames :
    \/ frames[fid].last_visited_end = 14
    \/ \E f \in DOMAIN frames[fid].active : \E t \in DOMAIN frames[fid].active[f] :
         frames[fid].active[f][t].cur = 14

\* The fan has ended at its End event, which has no symbol, with n = 3 and
\* each branch callback run once.
FanEnded ==
  /\ sc.name = "fan"
  /\ EndedAt(14)
  /\ diagram[0].data[14].ty = "End"
  /\ diagram[0].data[14].symbol = NoSymbol
  /\ outcome.data["n"] = 3
  /\ \A i \in 0..2 : calls[i] = 1

\* C11: in the parallel fan no branch callback ever runs twice, all three
\* have run when a token reaches the End event, a run that has returned has
\* ended at the End event (symbol None) with n = 3, and every run of the fan
\* does return.
FanRunsEveryBranchOnce ==
  /\ [](sc.name = "fan" =>
          /\ \A i \in 0..2 : calls[i] <= 1
          /\ FanEndReached => \A i \in 0..2 : calls[i] = 1
          /\ Done => FanEnded)
  /\ (sc.name = "fan") ~> FanEnded

FanRanToEnd ==
  /\ FanEnded
  /\ user_data["n"] = 3
  /\ Count(arrived, <<0, 12>>) = 3

\* The flow of token (f, t) of activation fid has failed.
RaisedError(fid, f, t) ==
  /\ frames[fid].active[f][t].st = "ret"
  /\ frames[fid].active[f][t].res.t = "Err"

\* The step returns from activation fid with the error err: no callback
\* runs, no token moves, and when run called it, run returns that error.
FailsWith(fid, err) ==
  /\ fid \notin DOMAIN frames'
  /\ calls' = calls
  /\ user_data' = user_data
  /\ frames[fid].parent.frame = 0 => (run_pc' = "done" /\ ~outcome'.ok /\ outcome'.err = err)

\* C12: once the flow of a token has failed, the next step is the return of
\* execute with that error (no token is advanced and no callback is run in
\* between), and a run in which the callback of Task "Bad" has run returns
\* MissingBoundary, never a successful result.
ErrorStopsAtOnce ==
  /\ [][\A fid \in DOMAIN frames :
         \A f \in DOMAIN frames[fid].active : \A t \in DOMAIN frames[fid].active[f] :
           RaisedError(fid, f, t) =>
             FailsWith(fid, frames[fid].active[f][t].res.err)]_vars
  /\ []((sc.name = "error" /\ calls[1] > 0 /\ Done) => Failed("MissingBoundary"))

\* The nodes of the diagram that was read, as <<block, index>>.
NodesRead ==
  UNION {{<<p, i>> : i \in DOMAIN builder.data[p].data} : p \in DOMAIN builder.data}

NodeRead(n) == builder.data[n[1]].data[n[2]]

\* The node is an activity of a callable task kind, or an Exclusive,
\* Inclusive or EventBased gateway with more than one output.
NeedsCallback(bpmn) ==
  \/ bpmn.bpmn = "Activity" /\ bpmn.ty \in TaskTypes
  \/ /\ bpmn.bpmn = "Gateway"
     /\ bpmn.ty \in {"Exclusive", "Inclusive", "EventBased"}
     /\ Len(bpmn.bpmn_ids) > 1

\* The kind of callback the node needs, and the name it is looked up by.
KindNeeded(bpmn) == IF bpmn.bpmn = "Activity" THEN "Task" ELSE bpmn.ty

NameNeeded(bpmn) == IF bpmn.name = NoName THEN bpmn.id ELSE bpmn.name

\* A callback of that kind has been registered under that name.
Registered(kind, name) == \E i \in DOMAIN doc.d.regs : doc.d.regs[i] = <<kind, name>>

Unbound == {n \in NodesRead : /\ NeedsCallback(NodeRead(n))
                              /\ ~Registered(KindNeeded(NodeRead(n)), NameNeeded(NodeRead(n)))}

\* C13: build succeeds only if every node that needs a callback has one of
\* its kind registered under its name (its id when it has no name), and then
\* func_idx of each such node is the index of such a callback; otherwise
\* build fails with MissingImplementations naming every node without one.
BuildBindsEveryCallback ==
  /\ building.state = "Run" =>
       /\ Unbound = {}
       /\ \A n \in NodesRead :
            NeedsCallback(NodeRead(n)) =>
              LET func_idx == building.diagram[n[1] - 1].data[n[2]].func_idx
              IN /\ func_idx # NONE
                 /\ func_idx + 1 \in DOMAIN doc.d.regs
                 /\ doc.d.regs[func_idx + 1] = <<KindNeeded(NodeRead(n)), NameNeeded(NodeRead(n))>>
                 /\ building.handler.callbacks[func_idx + 1] = KindNeeded(NodeRead(n))
  /\ building.err = "MissingImplementations" =>
       /\ building.state = "Err"
       /\ Unbound # {}
       /\ building.missing = {<<NodeRead(n).ty, NameNeeded(NodeRead(n))>> : n \in Unbound}

BuildNamedEveryUnbound ==
  /\ building.state = "Err"
  /\ building.err = "MissingImplementations"
  /\ building.missing = {<<"Task", "T">>, <<"Inclusive", "G">>}

\* The blocks that have been finalized, and the nodes of one.
Finalized == DOMAIN builder.data

NodesOf(p) == DOMAIN builder.data[p].data

\* C14: after finalize every local id of the outputs of every node is the
\* index of a node of the same block, and that node is a SequenceFlow.
OutputsIndexFlows ==
  \A p \in Finalized : \A i \in NodesOf(p) :
    LET data == builder.data[p].data
    IN \A k \in DOMAIN data[i].outputs :
         /\ data[i].outputs[k] \in DOMAIN data
         /\ data[data[i].outputs[k]].bpmn = "SequenceFlow"

\* C15: after finalize the target_ref of every SequenceFlow is the index of
\* the node of the same block whose bpmn id is the one the flow names; it is
\* the index of no node with another id.
TargetsIndexNamedNode ==
  \A p \in Finalized : \A i \in NodesOf(p) :
    LET data == builder.data[p].data
    IN data[i].bpmn = "SequenceFlow" =>
         /\ data[i].target_ref \in DOMAIN data
         /\ data[data[i].target_ref].id = data[i].target_bpmn

\* The blocks of the document, open (on the process stack) or finalized.
BlocksRead ==
  {builder.process_stack[k] : k \in DOMAIN builder.process_stack}
  \cup {builder.data[p] : p \in Finalized}

\* The Start events of a block, and those of them without symbol.
StartsOf(pd) ==
  {i \in DOMAIN pd.data : pd.data[i].bpmn = "Event" /\ pd.data[i].ty = "Start"}

NoneStartsOf(pd) == {i \in StartsOf(pd) : pd.data[i].symbol = NoSymbol}

\* The document has two Start events without symbol in one process.
TwoNoneStarts(symbols) ==
  \E i, j \in DOMAIN symbols : i < j /\ symbols[i] = NoSymbol /\ symbols[j] = NoSymbol

\* The process and sub-process elements of the shape tree under the element
\* id, each as <<id, ids of the sub-processes nested directly in it>>.
RECURSIVE Family(_, _)
Family(tree, id) ==
  {<<id, {id \o "_" \o ToString(k) : k \in DOMAIN tree}>>}
  \cup UNION {Family(tree[k], id \o "_" \o ToString(k)) : k \in DOMAIN tree}

\* The same for the processes of document d after the first.
TopFamilies(d) == UNION {Family(d.tops[k], "q" \o ToString(k)) : k \in DOMAIN d.tops}

\* The same for the whole document.
Families(d) ==
  {<<"p", IF d.sub = <<"-">> THEN {} ELSE {"sp"}>>}
  \cup (IF d.sub = <<"-">> THEN {} ELSE {<<"sp", {}>>})
  \cup TopFamilies(d)

\* The number of Start events of the document.
StartsInDocument ==
  Len(doc.d.starts) + (IF doc.d.sub = <<"-">> THEN 0 ELSE Len(doc.d.sub))
  + Cardinality(TopFamilies(doc.d))

\* C16: the second Start event without symbol of one process fails the build
\* with BpmnRequirement, so the build fails so exactly when a process of the
\* document has two of them; while no call has failed a block holds at most
\* one of them and start is its index (no start without it), Start events
\* with a symbol are never start, and every Start event of a document that
\* was read is a node of its block.
SecondNoneStartFails ==
  /\ building.state # "Err" =>
       \A pd \in BlocksRead :
         /\ Cardinality(NoneStartsOf(pd)) <= 1
         /\ (pd.start = NONE) = (NoneStartsOf(pd) = {})
         /\ pd.start # NONE => pd.start \in NoneStartsOf(pd)
  /\ building.state # "reading" =>
       (building.err = "BpmnRequirement")
         = (TwoNoneStarts(doc.d.starts) \/ TwoNoneStarts(doc.d.sub))
  /\ building.state = "Build" =>
       Cardinality(UNION {{<<pd, i>> : i \in StartsOf(pd)} : pd \in BlocksRead})
         = StartsInDocument

\* The process has a Start event without symbol, then one with a symbol,
\* then a second one without: the build has failed at that one.
SecondNoneStartFailed ==
  /\ doc.d.starts = <<NoSymbol, "Timer", NoSymbol>>
  /\ building.state = "Err"
  /\ building.err = "BpmnRequirement"
  /\ \E pd \in BlocksRead : Cardinality(StartsOf(pd)) = 2 /\ Cardinality(NoneStartsOf(pd)) = 1

\* The Process and SubProcess blocks of the diagram that was built: those a
\* Process or SubProcess node refers to by its data_index.
ProcessBlocks ==
  {p \in DOMAIN building.diagram :
     \E q \in DOMAIN building.diagram : \E i \in DOMAIN building.diagram[q].data :
       LET bpmn == building.diagram[q].data[i]
       IN /\ bpmn.bpmn = "Process" \/ (bpmn.bpmn = "Activity" /\ bpmn.ty = "SubProcess")
          /\ bpmn.data_index = p}

\* C17, as stated: after a successful build every Process and SubProcess
\* block has exactly one Start event without symbol, and start is its index
\* (so a process without one does not build).
BuiltWithOneNoneStart ==
  building.state = "Run" =>
    \A p \in ProcessBlocks :
      LET pd == building.diagram[p]
      IN /\ Cardinality(NoneStartsOf(pd)) = 1
         /\ pd.start \in NoneStartsOf(pd)

\* C17, amended: after a successful build every Process and SubProcess block
\* has at most one Start event without symbol; start is its index when the
\* block has one and None when it has none.
BuiltWithAtMostOneNoneStart ==
  building.state = "Run" =>
    \A p \in ProcessBlocks :
      LET pd == building.diagram[p]
      IN /\ Cardinality(NoneStartsOf(pd)) <= 1
         /\ (pd.start = NONE) = (NoneStartsOf(pd) = {})
         /\ pd.start # NONE => pd.start \in NoneStartsOf(pd)

\* A process whose only Start event has a symbol has been built.
BuiltWithoutNoneStart ==
  /\ building.state = "Run"
  /\ doc.d.starts = <<"Timer">>
  /\ \E p \in ProcessBlocks :
       /\ building.diagram[p].start = NONE
       /\ StartsOf(building.diagram[p]) # {}
       /\ \E i \in DOMAIN building.diagram[p].data : building.diagram[p].data[i].id = "t"

\* The reader has closed, with an end tag of its own, a sequence flow it had
\* opened: the last call is end and the one before it added the flow.
ClosedSequenceFlow ==
  /\ pos >= 2
  /\ doc.calls[pos].op = "end"
  /\ doc.calls[pos - 1].op = "add"
  /\ doc.calls[pos - 1].bpmn.bpmn = "SequenceFlow"

\* C18: a build fails with NotSupported exactly when its document has a
\* sequence flow that is closed with an end tag of its own; it fails at the
\* call that closes the flow and no diagram is produced.  A document whose
\* sequence flows are all empty elements never fails with NotSupported.
ConditionalFlowNotSupported ==
  /\ building.state # "reading" => ((building.err = "NotSupported") = doc.d.cond)
  /\ building.err = "NotSupported" =>
       /\ building.state = "Err"
       /\ building.diagram = <<>>
       /\ ClosedSequenceFlow
  /\ ClosedSequenceFlow => building.err = "NotSupported"

\* The build of a document with a conditional sequence flow has failed.
ConditionalFlowRejected ==
  /\ doc.d.cond
  /\ ClosedSequenceFlow
  /\ building.state = "Err"
  /\ building.err = "NotSupported"

\* A token of process p is on node id.
TokenOn(p, id) ==
  \E fid \in DOMAIN frames :
    /\ frames[fid].process = p
    /\ \E f \in DOMAIN frames[fid].active : \E t \in DOMAIN frames[fid].active[f] :
         frames[fid].active[f][t].cur = id

\* C19: the token on the throw Link event "k" goes to the catch Link event
\* "k" of its own process and runs on from there (Task A, End "right"); it
\* never takes the output of the throw event.  When the process of the throw
\* event has no catch Link event named "k" (only its sub-process has one,
\* only its parent has one, or its catch event "k" is no Link) the run fails
\* with MissingIntermediateCatchEvent and no token goes past a throw event.
LinkThrowGoesToCatch ==
  sc.name = "link" =>
    /\ ~TokenOn(1, 5) /\ ~TokenOn(1, 6)
    /\ sc.v = 3 => (~TokenOn(0, 3) /\ ~TokenOn(0, 4) /\ \A id \in 3..11 : ~TokenOn(1, id))
    /\ sc.v # 1 => (calls[0] = 0 /\ \A id \in 7..11 : ~TokenOn(1, id))
    /\ Done => IF sc.v = 1
               THEN EndedAt(11) /\ calls[0] = 1
               ELSE Failed("MissingIntermediateCatchEvent")

\* The token has gone from the throw event to the catch event of its
\* process, and the run has ended at End "right".
LinkCaught ==
  /\ sc.name = "link"
  /\ sc.v = 1
  /\ EndedAt(11)
  /\ calls[0] = 1
  /\ catch_event_link(diagram[1], "k") = 7
  /\ catch_event_link(diagram[0], "k") = 2

\* The boundary scenario: what the callback of the task returns, and
\* whether the boundary event attached to the task (symbol Error, named
\* "fail" when sc.d) has that symbol and that name.
Returned == BoundaryRets[sc.v]

BoundaryMatches ==
  /\ Returned.symbol = "Error"
  /\ Returned.name = (IF sc.d THEN "fail" ELSE NoName)

\* A task callback that returns a boundary makes the token go on at the
\* boundary event attached to the task that has the symbol and the name
\* returned (the run ends at the End "handled" behind it); without such a
\* boundary event the run fails with MissingBoundary.  With None the run
\* ends at the End "normal" behind the output of the task.
TaskResultRoutes ==
  (sc.name = "boundary" /\ Done) =>
    CASE Returned = NoBoundary -> EndedAt(4) /\ calls[0] = 1
      [] BoundaryMatches -> EndedAt(7) /\ calls[0] = 1
      [] OTHER -> Failed("MissingBoundary")

\* C20, as stated: a task callback that returns None makes one token go on,
\* along the first output of the task: of Task B (behind the first output
\* of Task "T") and Task C (behind the second) only Task B is ever run.
NoneFollowsFirstOutput ==
  /\ TaskResultRoutes
  /\ sc.name = "task" =>
       /\ calls[2] = 0
       /\ Done => (EndedAt(9) /\ calls[0] = 1 /\ calls[1] = 1)

\* C20, amended: a task callback that returns None makes the token follow
\* the output of a task that has one (Task B runs, the run ends at End
\* "e1"); a task with several outputs forks, a token going on along each of
\* them (Task B and Task C both run, once each).
NoneFollowsOutputs ==
  /\ TaskResultRoutes
  /\ sc.name = "task" =>
       /\ \A i \in 0..2 : calls[i] <= 1
       /\ (sc.v = 1) => (calls[2] = 0)
       /\ Done =>
            /\ outcome.ok
            /\ calls[0] = 1 /\ calls[1] = 1
            /\ (sc.v = 1) => EndedAt(9)
            /\ (sc.v = 2) => (calls[2] = 1 /\ exec_end.event \in {9, 10})

\* The task with two outputs has forked: Task B and Task C have both run.
TaskForked ==
  /\ sc.name = "task"
  /\ sc.v = 2
  /\ Done
  /\ outcome.ok
  /\ calls[0] = 1 /\ calls[1] = 1 /\ calls[2] = 1

\* No activation of execute holds a fork record or a frontier waiting for
\* one.
NoForkRecorded ==
  \A fid \in DOMAIN frames :
    /\ frames[fid].token_stack = <<>>
    /\ frames[fid].uncommitted = <<>>

\* C21: an Exclusive gateway with two outputs sends its token along one
\* output: the flow whose name or id is the value its callback returns
\* (MissingOutput when no output has it), the default flow when the callback
\* returns None (MissingDefault without a default); only the task behind
\* that flow runs, and no fork record is ever made.
ExclusiveForwardsOne ==
  sc.name = "exclusive" =>
    /\ NoForkRecorded
    /\ calls[0] <= 1
    /\ calls[1] + calls[2] <= 1
    /\ Done =>
         CASE ExclusiveVals[sc.v] = "YES" ->
                EndedAt(9) /\ calls[0] = 1 /\ calls[1] = 1 /\ calls[2] = 0
           [] ExclusiveVals[sc.v] = "no_id" ->
                EndedAt(10) /\ calls[0] = 1 /\ calls[1] = 0 /\ calls[2] = 1
           [] ExclusiveVals[sc.v] = "zz" ->
                Failed("MissingOutput") /\ calls[0] = 1 /\ calls[1] + calls[2] = 0
           [] ExclusiveVals[sc.v] = NoName /\ sc.d ->
                EndedAt(10) /\ calls[0] = 1 /\ calls[1] = 0 /\ calls[2] = 1
           [] OTHER ->
                Failed("MissingDefault") /\ calls[0] = 1 /\ calls[1] + calls[2] = 0

\* The callback has returned the id of the unnamed flow, which is not the
\* default flow, and the run has ended behind that flow.
ExclusiveTookFlowById ==
  /\ sc.name = "exclusive"
  /\ ExclusiveVals[sc.v] = "no_id"
  /\ ~sc.d
  /\ EndedAt(10)
  /\ calls[2] = 1

\* C22, as stated: a token that reaches an EventBased gateway with one
\* output makes the run fail with BpmnRequirement, whatever the number of
\* incoming elements of the gateway.
EventOneOutputFails ==
  (sc.name = "eventone" /\ Done) => Failed("BpmnRequirement")

\* C22, amended: the run fails with BpmnRequirement when the gateway has one
\* output and no or several incoming elements, and no token gets past the
\* gateway; with one output and one incoming element the token passes
\* through along the output, and the run ends at the End behind it.
EventOneOutputFailsUnlessOneInput ==
  sc.name = "eventone" =>
    /\ diagram[0].data[2].inputs # 1 => (~TokenOn(0, 3) /\ ~TokenOn(0, 4))
    /\ Done => IF diagram[0].data[2].inputs = 1
               THEN EndedAt(4)
               ELSE Failed("BpmnRequirement")

\* The gateway has one output and two incoming elements, and the run has
\* failed.
EventOneOutputFailed ==
  /\ sc.name = "eventone"
  /\ diagram[0].data[2].ty = "EventBased"
  /\ Len(diagram[0].data[2].outputs) = 1
  /\ diagram[0].data[2].inputs = 2
  /\ Failed("BpmnRequirement")

\* Target k of the EventBased gateway qualifies for what its callback
\* returned: a ReceiveTask of the name returned when the symbol returned is
\* Message, or an event of the name and the symbol returned, the symbol
\* being Message, Signal, Timer or Conditional.
Qualifies(k) ==
  LET t == EventTargets[k]
      name == EventRets[sc.v][1]
      symbol == EventRets[sc.v][2]
  IN \/ t[1] = "ReceiveTask" /\ symbol = "Message" /\ t[2] = name
     \/ /\ t[1] = "Event"
        /\ t[3] \in {"Message", "Signal", "Timer", "Conditional"}
        /\ t[3] = symbol
        /\ t[2] = name

\* C23: an EventBased gateway with several outputs sends its token along
\* the output whose flow targets the node that qualifies for what the
\* callback returned (the run ends at the End behind that node, and of the
\* two activities only a qualifying one runs); when no target qualifies the
\* run fails with MissingIntermediateEvent.  No fork record is made.
EventBasedSelects ==
  sc.name = "event" =>
    /\ NoForkRecorded
    /\ calls[0] <= 1
    /\ \A k \in 1..2 : calls[k] > 0 => Qualifies(k)
    /\ Done =>
         IF \E k \in DOMAIN EventTargets : Qualifies(k)
         THEN \E k \in DOMAIN EventTargets : Qualifies(k) /\ EndedAt(23 + k) /\ calls[0] = 1
         ELSE Failed("MissingIntermediateEvent") /\ calls[0] = 1

\* The callback has returned ("sig", Signal) and the run has ended behind
\* the Signal event named "sig".
EventBasedSelected ==
  /\ sc.name = "event"
  /\ EventRets[sc.v] = <<"sig", "Signal">>
  /\ diagram[0].data[14].name = "sig"
  /\ diagram[0].data[diagram[0].data[2].outputs[5]].target_ref = 14
  /\ EndedAt(28)

\* In the unbalanced scenario no join has fired and no token is behind one.
NoJoinFired ==
  /\ Count(fired, <<0, 5>>) = 0
  /\ Count(fired, <<0, 6>>) = 0
  /\ \A id \in 7..10 : ~TokenOn(0, id)

\* C24, as stated: with debug_assertions, when the tokens of one fork record
\* have arrived at two different joins the run fails with NotSupported, and
\* neither join fires.
UnbalancedIsNotSupported ==
  (sc.name = "unbalanced" /\ debug) =>
    /\ NoJoinFired
    /\ Done => Failed("NotSupported")

\* C24, amended: with debug_assertions, when the tokens of one fork record
\* have arrived at two different joins neither join fires, and the run fails
\* with NotSupported unless the join that was reached first is a Parallel
\* gateway declaring more incoming elements than the record has joined
\* entries, which fails the run with BpmnRequirement.
UnbalancedIsRejected ==
  (sc.name = "unbalanced" /\ debug) =>
    /\ NoJoinFired
    /\ Done => IF /\ diagram[0].data[5].ty = "Parallel"
                  /\ diagram[0].data[5].inputs > 2
               THEN Failed("BpmnRequirement")
               ELSE Failed("NotSupported")

\* The two tokens of the fork have arrived at the joins "ja" and "jb", and
\* the run has failed with NotSupported.
UnbalancedRejected ==
  /\ sc.name = "unbalanced"
  /\ sc.v = 1
  /\ debug
  /\ Count(arrived, <<0, 5>>) = 1
  /\ Count(arrived, <<0, 6>>) = 1
  /\ NoJoinFired
  /\ Failed("NotSupported")

\* execute is running on process data p.
Executing(p) == \E fid \in DOMAIN frames : frames[fid].process = p

\* run executes the processes of the Definitions block in the order listed,
\* one after the other, on the same user data: the second process runs only
\* after the first has ended, and sees the x the first has set; the first
\* process that fails ends the run with its error, and a process listed after
\* it is not executed; a successful run returns the user data as the last
\* process has left it, the last execute having returned the End event of
\* the last process.
RunExecutesInOrder ==
  sc.name = "multi" =>
    /\ ~(Executing(0) /\ Executing(1))
    /\ Executing(1) => (calls[0] = 1 /\ sc.v # 2)
    /\ calls[1] > 0 => (calls[0] = 1 /\ user_data["x"] = 2)
    /\ Done =>
         CASE sc.v = 1 ->
                /\ outcome.ok
                /\ outcome.data = [Input(Running) EXCEPT !["x"] = 2]
                /\ exec_end = [process |-> 1, event |-> 4]
                /\ calls[0] = 1 /\ calls[1] = 1
           [] sc.v = 2 -> Failed("MissingBoundary") /\ calls[0] = 1 /\ calls[1] = 0
           [] OTHER -> Failed("MissingBoundary") /\ calls[0] = 1 /\ calls[1] = 1

\* C25: run executes the processes in the order listed on the same user
\* data and stops at the first that fails, and the value a successful run
\* returns carries, next to the user data, the End event that ended the last
\* process.
RunReturnsDataAndEnd ==
  /\ RunExecutesInOrder
  /\ (sc.name = "multi" /\ Done /\ outcome.ok) =>
       /\ "end_node" \in DOMAIN outcome
       /\ outcome.end_node = exec_end.event

\* What a call of run returns when no other call is in flight, in the
\* scenarios in which run is called concurrently.
Alone(call) ==
  CASE sc.name = "fan" ->
         [outcome |-> [ok |-> TRUE, err |-> "", data |-> [Input(call) EXCEPT !["n"] = 3]],
          exec_end |-> [process |-> 0, event |-> 14]]
    [] sc.name = "multi" /\ sc.v = 1 ->
         [outcome |-> [ok |-> TRUE, err |-> "", data |-> [Input(call) EXCEPT !["x"] = 2]],
          exec_end |-> [process |-> 1, event |-> 4]]
    [] OTHER ->
         [outcome |-> [ok |-> FALSE, err |-> "MissingBoundary", data |-> ZeroData],
          exec_end |-> NoEnd]

\* The parked call has returned.
ParkedDone == parked # NoCall /\ parked.run_pc = "done"

\* C26: calls of run on the same built Process, one after the other or
\* interleaved in any way, do not interfere: no step of a run changes the
\* diagram or the callback table, a step of the running call leaves
\* everything the other call owns (user data, worklists, fork records) as it
\* is, and every call returns what it returns when it runs alone.
CallsDoNotInterfere ==
  /\ [][/\ diagram' = diagram
        /\ callbacks' = callbacks
        /\ (parked # NoCall /\ parked'.call = parked.call) => parked' = parked]_vars
  /\ [](sc.name \in Concurrent =>
          /\ Done => Result = Alone(Running)
          /\ ParkedDone =>
               [outcome |-> parked.outcome, exec_end |-> parked.exec_end] = Alone(parked.call)
          /\ \A i \in DOMAIN outcomes : outcomes[i] = Alone(1))

\* Both calls have returned, each with the user data it was given and the
\* effect of its own three tasks, after running on their own threads.
CallsReturned ==
  /\ sc.name = "fan"
  /\ Done
  /\ ParkedDone
  /\ outcome.ok /\ parked.outcome.ok
  /\ outcome.data["c"] # parked.outcome.data["c"]
  /\ outcome.data["n"] = 3 /\ parked.outcome.data["n"] = 3

\* The index of the last of the registrations regs made under kind and
\* name, NONE when there is none.
LastRegistered(regs, kind, name) ==
  LET at == {i \in DOMAIN regs : regs[i] = <<kind, name>>}
  IN IF at = {} THEN NONE ELSE (CHOOSE i \in at : \A j \in at : j <= i) - 1

\* The registrations made so far.
RegisteredSoFar == SubSeq(doc.d.regs, 1, Len(building.handler.callbacks))

\* A kind and name have been registered more than once.
RegisteredTwice(regs) == \E i, j \in DOMAIN regs : i < j /\ regs[i] = regs[j]

\* C27: registering under a kind and name already registered is no error;
\* after any sequence of registrations the handler map has, for every kind
\* and name, the index of the callback registered last under that kind and
\* name (registrations of the name under another kind do not count), and
\* build binds every node that takes a callback to the callback registered
\* last under its kind and name.
LastRegistrationWins ==
  /\ building.state \in {"Build", "Run"} =>
       /\ Len(building.handler.callbacks) <= Len(doc.d.regs)
       /\ \A i \in DOMAIN RegisteredSoFar : building.handler.callbacks[i] = RegisteredSoFar[i][1]
  /\ building.state = "Build" =>
       \A kind \in {"Task", "Exclusive", "Inclusive", "EventBased"} :
         \A name \in {"T", "G", "t", "g"} :
           HandlerMap_get(building.handler.handler_map, kind, name)
             = LastRegistered(RegisteredSoFar, kind, name)
  /\ building.state = "Run" =>
       \A p \in DOMAIN building.diagram : \A i \in DOMAIN building.diagram[p].data :
         LET bpmn == building.diagram[p].data[i]
         IN HandlerTypeOf(bpmn) # "" =>
              bpmn.func_idx = LastRegistered(doc.d.regs, HandlerTypeOf(bpmn), name_or_id(bpmn))
  /\ building.err = "MissingImplementations" =>
       \E q \in building.missing : LastRegistered(doc.d.regs, q[1], q[2]) = NONE

\* The build has bound the task and the gateway of a document for which
\* both names were registered twice under the node's kind, and the
\* gateway's name under another kind after that.
BoundLastRegistered ==
  /\ building.state = "Run"
  /\ Len(doc.d.regs) = 5
  /\ RegisteredTwice(doc.d.regs)
  /\ \E p \in DOMAIN building.diagram : \E i, j \in DOMAIN building.diagram[p].data :
       /\ HandlerTypeOf(building.diagram[p].data[i]) = "Task"
       /\ building.diagram[p].data[i].func_idx \in {2, 4}
       /\ HandlerTypeOf(building.diagram[p].data[j]) \in {"Exclusive", "Inclusive"}
       /\ building.diagram[p].data[j].func_idx = 3

\* The nodes of a block that are Process or SubProcess nodes.
ProcessNodes(block) ==
  {i \in DOMAIN block.data :
     \/ block.data[i].bpmn = "Process"
     \/ block.data[i].bpmn = "Activity" /\ block.data[i].ty = "SubProcess"}

\* The block was built from the contents of the element id of document d:
\* it has the End event of that element, and its SubProcess nodes are the
\* sub-processes nested directly in the element.
BuiltFrom(block, id, d) ==
  /\ \E i \in DOMAIN block.data :
       /\ block.data[i].bpmn = "Event"
       /\ block.data[i].id = EndIdOf(id)
  /\ \E fam \in Families(d) :
       /\ fam[1] = id
       /\ {block.data[i].id : i \in ProcessNodes(block)} = fam[2]

\* The blocks finished so far.
Blocks == Vec(builder.data)

\* The ids of the top-level processes of document d, as listed.
TopIds(d) == <<"p">> \o [k \in DOMAIN d.tops |-> "q" \o ToString(k)]

\* The document has been read to its end without an error.
DocumentRead == pos = Len(doc.calls) /\ building.err = ""

NestedJoins ==
  IF sc.v = 1 THEN [outer |-> <<0, 10>>, inner |-> <<0, 8>>]
  ELSE [outer |-> <<0, 17>>, inner |-> <<0, 16>>]

\* A step takes fork records off the stack of an activation only at its
\* end, one at a time, and leaves the records under the last as they are.
PopsLast ==
  \A fid \in DOMAIN frames \cap DOMAIN frames' :
    LET old == frames[fid].token_stack
        new == frames'[fid].token_stack
    IN (frames'[fid].process = frames[fid].process /\ parked' = parked) =>
         /\ Len(new) >= Len(old) - 1
         /\ \A i \in 1..(Len(old) - 1) : i < Len(new) => new[i] = old[i]
         /\ Len(new) < Len(old) => new = SubSeq(old, 1, Len(old) - 1)

\* The join of the fork around a nested fork fires only after the nested
\* fork is through: its tokens consumed, its record popped, its join fired.
OuterJoinWaits ==
  sc.name = "nested" =>
    (Count(fired, NestedJoins.outer) > 0 => Count(fired, NestedJoins.inner) > 0)

\* C29: the tokens of a fork created while another fork is live are all
\* consumed and its record is popped before a join of the fork around it
\* fires, and fork records are popped in the reverse order of their
\* creation.
NestedForkCompletesFirst == []OuterJoinWaits /\ [][PopsLast]_vars

\* s is t with elements added at its end, or t itself.
Extends(s, t) == Len(s) >= Len(t) /\ SubSeq(s, 1, Len(t)) = t

\* What a step of the running call does to the lists of an activation that
\* goes on: the commit at the end of a round moves every uncommitted
\* frontier to the ready list, in order, and pushes one fork record for
\* each, created being the number of its tokens; the top of the loop takes
\* the whole ready list as the tokens of the round; any other step pushes
\* no fork record, adds no frontier to the tokens of the round, only adds
\* to the uncommitted list, and adds to the ready list at most the single
\* output of a join that has just fired.
RoundStep(old, new) ==
  CASE old.pc = "commit" ->
         /\ new.pc = "loop"
         /\ new.uncommitted = <<>>
         /\ new.tokens_ready = old.tokens_ready \o old.uncommitted
         /\ new.token_stack = old.token_stack
              \o [i \in DOMAIN old.uncommitted |-> TokenData(Len(old.uncommitted[i]))]
    [] old.pc = "loop" ->
         /\ new.tokens_ready = <<>>
         /\ new.uncommitted = <<>>
         /\ new.token_stack = old.token_stack
         /\ DOMAIN new.active = DOMAIN old.tokens_ready
         /\ \A f \in DOMAIN new.active :
              new.active[f] = [t \in DOMAIN old.tokens_ready[f] |-> Token(old.tokens_ready[f][t])]
    [] old.pc = "start" ->
         /\ new.uncommitted = <<>>
         /\ new.token_stack = <<>>
         /\ new.active = <<>>
    [] OTHER ->
         /\ Len(new.token_stack) <= Len(old.token_stack)
         /\ DOMAIN new.active = DOMAIN old.active
         /\ \A f \in DOMAIN new.active : DOMAIN new.active[f] = DOMAIN old.active[f]
         /\ Extends(new.uncommitted, old.uncommitted)
         /\ \/ new.tokens_ready = old.tokens_ready
            \/ /\ new.uncommitted = old.uncommitted
               /\ fired' # fired
               /\ Len(new.tokens_ready) = Len(old.tokens_ready) + 1
               /\ Extends(new.tokens_ready, old.tokens_ready)
               /\ Len(new.tokens_ready[Len(new.tokens_ready)]) = 1

\* C30: at the top of every round the uncommitted list is empty; the
\* frontiers that forks produce in a round are made ready by the commit at
\* the end of that round and by nothing else, and become tokens of a round
\* only at the top of the next; commit pushes one fork record per frontier
\* it commits, with created the number of tokens of the frontier.
RoundsAreSeparated ==
  /\ [](\A fid \in DOMAIN frames :
          frames[fid].pc \in {"start", "loop"} => frames[fid].uncommitted = <<>>)
  /\ [][\A fid \in DOMAIN frames \cap DOMAIN frames' :
         (frames'[fid].process = frames[fid].process /\ parked' = parked
            /\ frames'[fid] # frames[fid])
           => RoundStep(frames[fid], frames'[fid])]_vars

\* A commit has made the frontiers of two forks of one round ready and
\* pushed a record of two tokens for each, on top of the record of the
\* fork around them.
TwoForksCommitted ==
  /\ sc.name = "nested"
  /\ sc.v = 2
  /\ \E fid \in DOMAIN frames :
       /\ frames[fid].pc = "loop"
       /\ frames[fid].tokens_ready = << <<6, 7>>, <<11, 12>> >>
       /\ Len(frames[fid].token_stack) = 3
       /\ \A i \in 2..3 : frames[fid].token_stack[i] = TokenData(2)

\* The step fires, for activation fid, a Parallel or Inclusive join that
\* has one output.
FiresSingleOutputJoin(fid) ==
  /\ fired' # fired
  /\ parked' = parked
  /\ fid \in DOMAIN frames'
  /\ frames[fid].pc = "consumed"
  /\ frames'[fid] # frames[fid]
  /\ last_fire'.process = frames[fid].process
  /\ Len(diagram[last_fire'.process].data[last_fire'.gateway].outputs) = 1

\* Firing a join with one output pops the record of the fork joined and
\* pushes none: the stack is one shorter, nothing is left uncommitted for
\* it, and the output is the new last frontier of the ready list, put
\* there for the record around the fork joined.
SingleOutputJoinPushesNoRecord ==
  \A fid \in DOMAIN frames :
    FiresSingleOutputJoin(fid) =>
      LET old == frames[fid]
          new == frames'[fid]
      IN /\ old.token_stack # <<>>
         /\ new.token_stack = SubSeq(old.token_stack, 1, Len(old.token_stack) - 1)
         /\ new.uncommitted = old.uncommitted
         /\ new.tokens_ready
              = Append(old.tokens_ready,
                       diagram[old.process].data[last_fire'.gateway].outputs)
         /\ new.hist.ready[Len(new.hist.ready)]
              = Own(old.hist.parent[old.hist.stack[Len(old.hist.stack)]], TRUE)

\* The last Join or End of a token that came out of a single-output join
\* was counted on the record around the fork that was joined.
PromotedCountsOnEnclosing ==
  \A fid \in DOMAIN frames :
    frames[fid].hist.last.imm => frames[fid].hist.last.record = frames[fid].hist.last.own

\* C31: a Parallel or Inclusive join with one output that fires puts its
\* output on the ready list and pushes no fork record, the stack being one
\* shorter than before, and what the token that goes on is consumed by
\* later is counted on the record of the fork around the one joined.
SingleOutputJoinIsImmediate ==
  [][SingleOutputJoinPushesNoRecord]_vars /\ []PromotedCountsOnEnclosing

\* The step is, for the activation fid, part of the advancement of its
\* tokens: the activation is in a round before and after it and no result
\* has been dispatched (the steps of a sub-process a token has called
\* included).
Advancing(fid) ==
  /\ fid \in DOMAIN frames'
  /\ parked' = parked
  /\ frames[fid].pc = "round"
  /\ frames'[fid].pc = "round"
  /\ frames'[fid].fi = frames[fid].fi
  /\ frames'[fid].ti = frames[fid].ti

\* The scheduler state of an activation.
Scheduler(fr) ==
  [tokens_ready |-> fr.tokens_ready, uncommitted |-> fr.uncommitted,
   token_stack |-> fr.token_stack, last_visited_end |-> fr.last_visited_end]

\* C32: advancing a token (flow, the execution of a sub-process it calls
\* included) changes neither tokens_ready nor uncommitted nor token_stack
\* of its activation, nor what run returns; they change only when a result
\* is dispatched.  Of the state outside the activations it changes the user
\* data only.
FlowLeavesSchedulerUnchanged ==
  [][\A fid \in DOMAIN frames :
       Advancing(fid) =>
         /\ Scheduler(frames'[fid]) = Scheduler(frames[fid])
         /\ (frames' # frames /\ \A g \in DOMAIN frames : g \in DOMAIN frames' /\ Advancing(g)
               /\ DOMAIN frames' = DOMAIN frames) =>
              UNCHANGED <<diagram, callbacks, outcome, exec_end, run_pc, def_pos, outcomes,
                          arrived, fired, last_fire>>]_vars

\* A token of the parallel fan has been advanced to its task and the task
\* has changed the user data, with the record of the fork on the stack and
\* no result of the round dispatched yet.
TaskAdvancedInRound ==
  /\ sc.name = "fan"
  /\ user_data["n"] >= 1
  /\ \E fid \in DOMAIN frames :
       /\ frames[fid].pc = "round"
       /\ frames[fid].ti = 1
       /\ frames[fid].fi = Len(frames[fid].active)
       /\ Len(frames[fid].token_stack) = 1
       /\ frames[fid].token_stack[1].consumed = 0
       /\ \E t \in DOMAIN frames[fid].active[1] : frames[fid].active[1][t].cur \in 6..8

\* The Inclusive gateways that are join and fork at once (more than one
\* input, more than one output), as <<process, gateway>>.
InclusiveJoinForks ==
  UNION {{<<p, g>> : g \in {i \in DOMAIN diagram[p].data :
                              /\ diagram[p].data[i].bpmn = "Gateway"
                              /\ diagram[p].data[i].ty = "Inclusive"
                              /\ diagram[p].data[i].inputs > 1
                              /\ Len(diagram[p].data[i].outputs) > 1}}
         : p \in DOMAIN diagram}

\* The callback of such a gateway has run as often as the gateway was
\* fired or failed to select a flow, never while a token of its fork was
\* still to arrive.
CallbackOncePerFiring ==
  \A key \in InclusiveJoinForks :
    LET gateway == diagram[key[1]].data[key[2]]
        n == calls[gateway.func_idx]
    IN /\ Count(fired, key) <= n
       /\ n <= Count(fired, key) + (IF Done /\ ~outcome.ok THEN 1 ELSE 0)
       /\ n > 0 => Count(arrived, key) = n * gateway.inputs
       /\ Count(arrived, key) < gateway.inputs => n = 0

\* The step that runs the callback of such a gateway is the firing of the
\* gateway: the last fork record is fully consumed, all its tokens joined
\* the gateway, the record is popped, and the flows selected (outputs of
\* the gateway) are one more uncommitted frontier, none of them ready yet.
CallbackRunsAtFiring ==
  \A key \in InclusiveJoinForks :
    LET gateway == diagram[key[1]].data[key[2]]
        idx == gateway.func_idx
    IN calls'[idx] > calls[idx] /\ parked' = parked =>
         /\ calls'[idx] = calls[idx] + 1
         /\ \E fid \in DOMAIN frames :
              LET old == frames[fid]
                  top == old.token_stack[Len(old.token_stack)]
              IN /\ old.pc = "consumed"
                 /\ old.process = key[1]
                 /\ old.token_stack # <<>>
                 /\ top.consumed = top.created
                 /\ top.joined = [i \in 1..gateway.inputs |-> key[2]]
                 /\ \/ /\ fired' = fired
                       /\ run_pc' = "done"
                       /\ ~outcome'.ok
                    \/ /\ fired' = Bump(fired, key)
                       /\ fid \in DOMAIN frames'
                       /\ LET new == frames'[fid]
                          IN /\ new.token_stack
                                  = SubSeq(old.token_stack, 1, Len(old.token_stack) - 1)
                             /\ new.tokens_ready = old.tokens_ready
                             /\ Len(new.uncommitted) = Len(old.uncommitted) + 1
                             /\ LET sel == new.uncommitted[Len(new.uncommitted)]
                                IN /\ sel # <<>>
                                   /\ Range(sel) \subseteq Range(gateway.outputs)

\* commit gives every uncommitted frontier a fork record of its own, for
\* as many tokens as it has flows, and makes it ready.
CommitPushesOwnRecords ==
  \A fid \in DOMAIN frames :
    (frames[fid].pc = "commit" /\ parked' = parked /\ fid \in DOMAIN frames'
       /\ frames'[fid] # frames[fid]) =>
      LET old == frames[fid]
          new == frames'[fid]
      IN /\ Len(new.token_stack) = Len(old.token_stack) + Len(old.uncommitted)
         /\ \A i \in DOMAIN old.uncommitted :
              /\ new.token_stack[Len(old.token_stack) + i]
                   = TokenData(Len(old.uncommitted[i]))
              /\ new.tokens_ready[Len(old.tokens_ready) + i] = old.uncommitted[i]
         /\ new.uncommitted = <<>>

\* C33: an Inclusive gateway with more than one input and more than one
\* output does not run its callback when a token arrives; the callback runs
\* once per firing, after every token of the fork has been consumed, and
\* the flows it selects are a new frontier with a fork record of its own.
InclusiveJoinForkRunsCallbackAtFiring ==
  []CallbackOncePerFiring /\ [][CallbackRunsAtFiring /\ CommitPushesOwnRecords]_vars

\* The gateway "both" was fired once with the callback selecting both its
\* outputs: the callback ran once, both End events were reached and the run
\* succeeded.
InclusiveJoinForkFired ==
  /\ sc.name = "incjoin"
  /\ sc.v = 1
  /\ Done
  /\ outcome.ok
  /\ calls[0] = 1
  /\ Count(fired, <<0, 5>>) = 1
  /\ Count(arrived, <<0, 5>>) = 2
  /\ last_fire.created = 2

\* The End event the activation fr is about to return: the last End event
\* visited when no frontier is ready, or the Terminate or Cancel End event
\* whose result is dispatched next (NONE: it does not return an End event).
ReturnedEnd(fr) ==
  IF fr.pc = "loop" /\ fr.tokens_ready = <<>>
  THEN fr.last_visited_end
  ELSE IF /\ fr.pc = "round"
          /\ MayDispatch(fr)
          /\ fr.active[fr.fi][fr.ti].res.t = "End"
          /\ is_terminating(diagram[fr.process].data[fr.active[fr.fi][fr.ti].res.node])
       THEN fr.active[fr.fi][fr.ti].res.node
       ELSE NONE

\* The end symbols that make the parent go on at a boundary event.
RoutedSymbols ==
  {"Error", "Escalation", "Signal", "Message", "Timer", "Conditional", "Cancel",
   "Compensation"}

\* The step in which the activation of a sub-process returns an End event
\* whose symbol is not routed to a boundary changes, of the activation that
\* called it, only the token on the SubProcess activity: the token follows
\* the outputs of the activity.  The other tokens of the round, the ready
\* list, the uncommitted forks and the fork records stay as they are.
SubProcessEndContinuesParent ==
  \A fid \in DOMAIN frames :
    LET fr == frames[fid]
        p == fr.parent
        e == ReturnedEnd(fr)
    IN (/\ fid \notin DOMAIN frames'
        /\ parked' = parked
        /\ p.frame # 0
        /\ e # NONE
        /\ diagram[fr.process].data[e].symbol \notin RoutedSymbols) =>
         LET caller == frames[p.frame]
             tok == caller.active[p.f][p.t]
             outputs == diagram[caller.process].data[tok.cur].outputs
         IN /\ p.frame \in DOMAIN frames'
            /\ outputs # <<>>
            /\ frames'[p.frame] =
                 [caller EXCEPT !.active[p.f][p.t] =
                    IF Len(outputs) = 1
                    THEN [tok EXCEPT !.st = "flow", !.cur = outputs[1]]
                    ELSE [tok EXCEPT !.st = "ret", !.res = ReturnFork(outputs)]]
            /\ UNCHANGED <<run_pc, outcome, exec_end>>

\* The parent of the subfork scenario ends at its End event with both its
\* tokens joined: the task of the other branch ran once.  Of the
\* sub-process ended by Terminate the other token is given up (its task
\* runs only when the flows of a round all run before their results are
\* looked at).
ParentTokensNotAbandoned ==
  (sc.name = "subfork" /\ Done) =>
    /\ outcome.ok
    /\ exec_end = [process |-> 1, event |-> 11]
    /\ calls[0] = 1
    /\ Count(arrived, <<1, 9>>) = 2
    /\ Count(fired, <<1, 9>>) = 1
    /\ calls[1] = IF SubForkEnds[sc.v] = "Terminate" /\ ~parallel THEN 0 ELSE 1

\* C34: a sub-process that ends at an End event with the symbol Terminate,
\* with no symbol or with another symbol that is not routed to a boundary
\* ends only itself: the token of the parent goes on along the outputs of
\* the SubProcess activity and the other tokens of the parent are kept.
SubProcessEndEndsOnlySubProcess ==
  [][SubProcessEndContinuesParent]_vars /\ []ParentTokensNotAbandoned

\* The sub-process of the subfork scenario ended at its Terminate End event
\* before its other token ran, and the parent went on to its End event
\* with the task of its other branch run.
SubProcessTerminatedAlone ==
  /\ sc.name = "subfork"
  /\ SubForkEnds[sc.v] = "Terminate"
  /\ Done
  /\ outcome.ok
  /\ exec_end.event = 11
  /\ calls[0] = 1
  /\ calls[1] = 0
  /\ user_data["a"] = 1

\* The result execute gives when a round starts with no ready frontier
\* and the End events ends were reached, in the order of dispatch.
ResultOfEnds(ends) ==
  IF ends = <<>> THEN ResultErr("MissingEndEvent") ELSE ResultOk(ends[Len(ends)])

\* The step makes the activation fid return result, to run or to the flow
\* of the sub-process activity that called it.
Returns(fid, result) ==
  LET fr == frames[fid]
      p == fr.parent
  IN /\ fid \notin DOMAIN frames'
     /\ IF p.frame = 0
        THEN IF result.ok
             THEN /\ exec_end' = [process |-> fr.process, event |-> result.event]
                  /\ run_pc' = "iter"
                  /\ outcome' = outcome
             ELSE /\ run_pc' = "done"
                  /\ ~outcome'.ok
                  /\ outcome'.err = result.err
        ELSE /\ p.frame \in DOMAIN frames'
             /\ frames'[p.frame].active[p.f][p.t]
                  = ResumedToken(frames[p.frame], frames[p.frame].active[p.f][p.t], result)

\* The errors the activation fr may return where it is: of its start, of
\* the result it dispatches next, or of tokens_consumed and the selection
\* of an Inclusive gateway it fires.
ErrorsAt(fr) ==
  CASE fr.pc = "start" -> {"MissingStartEvent"}
    [] fr.pc = "round" /\ MayDispatch(fr) -> {fr.active[fr.fi][fr.ti].res.err}
    [] fr.pc = "consumed" ->
         {"BpmnRequirement", "NotSupported", "MissingImplementation", "MissingOutput",
          "MissingDefault"}
    [] OTHER -> {}

\* last_visited_end is the End event dispatched last, if any.
LastVisitedIsLastReached ==
  \A fid \in DOMAIN frames :
    frames[fid].last_visited_end
      = IF frames[fid].hist.ends = <<>> THEN NONE
        ELSE frames[fid].hist.ends[Len(frames[fid].hist.ends)]

\* An activation at the top of a round with no ready frontier does nothing
\* but return, the End event reached last or MissingEndEvent when none was
\* reached; with a ready frontier it does not return; and an activation
\* that is not at the top of a round returns only an error or a Terminate
\* or Cancel End event.
ReturnsAtEmptyRound ==
  \A fid \in DOMAIN frames :
    LET fr == frames[fid]
    IN parked' = parked =>
         /\ (fr.pc = "loop" /\ fr.tokens_ready = <<>>) =>
              IF fid \in DOMAIN frames'
              THEN frames'[fid] = fr
              ELSE Returns(fid, ResultOfEnds(fr.hist.ends))
         /\ (fr.pc = "loop" /\ fr.tokens_ready # <<>>) => fid \in DOMAIN frames'
         /\ (fr.pc # "loop" /\ fid \notin DOMAIN frames') =>
              \/ \E err \in ErrorsAt(fr) : err # "" /\ Returns(fid, ResultErr(err))
              \/ /\ ReturnedEnd(fr) # NONE
                 /\ Returns(fid, ResultOk(ReturnedEnd(fr)))

\* C35: when no error and no Terminate or Cancel End event ends it, execute
\* returns exactly when a round starts with no ready frontier, and returns
\* the End event reached last in the order of dispatch, or MissingEndEvent
\* if and only if no End event was reached.
ExecuteReturnsLastEndAtEmptyRound ==
  []LastVisitedIsLastReached /\ [][ReturnsAtEmptyRound]_vars

\* A run in which two End events were reached in the same round, the second
\* of the fork first, and that ended at the one dispatched last.
ReturnedLastOfTwoEnds ==
  /\ sc.name = "incjoin"
  /\ sc.v = 1
  /\ Done
  /\ outcome.ok
  /\ exec_end.event \in {8, 9}
  /\ Count(fired, <<0, 5>>) = 1

\* No fork record has more tokens consumed than were created for it.
ConsumedAtMostCreated ==
  \A fid \in DOMAIN frames : \A i \in DOMAIN frames[fid].token_stack :
    frames[fid].token_stack[i].consumed <= frames[fid].token_stack[i].created

\* tokens_consumed pops the last record when, and only when, as many
\* tokens were consumed on it as were created for it (the activation
\* returns instead when the record popped is found faulty); no other step
\* makes the stack shorter.
PoppedWhenAllConsumed ==
  \A fid \in DOMAIN frames :
    LET old == frames[fid]
        top == old.token_stack[Len(old.token_stack)]
    IN parked' = parked =>
         /\ (fid \in DOMAIN frames' /\ Len(frames'[fid].token_stack) < Len(old.token_stack)) =>
              /\ old.pc = "consumed"
              /\ Len(frames'[fid].token_stack) = Len(old.token_stack) - 1
              /\ top.consumed = top.created
         /\ (old.pc = "consumed" /\ old.token_stack # <<>> /\ top.consumed = top.created
               /\ fid \in DOMAIN frames' /\ frames'[fid] # old) =>
              frames'[fid].token_stack = SubSeq(old.token_stack, 1, Len(old.token_stack) - 1)

\* Between rounds no record on the stack is fully consumed.
NoConsumedRecordLeft ==
  \A fid \in DOMAIN frames :
    frames[fid].pc \in {"loop", "commit"} =>
      \A i \in DOMAIN frames[fid].token_stack :
        frames[fid].token_stack[i].consumed < frames[fid].token_stack[i].created

\* C36: every fork record on token_stack has consumed <= created, and a
\* record is popped exactly when its consumed count equals its created
\* count.
RecordsConsumedUpToCreated ==
  []ConsumedAtMostCreated /\ []NoConsumedRecordLeft /\ [][PoppedWhenAllConsumed]_vars

\* The last Join or End consumed in every activation was counted on the
\* record of the frontier of its token: the record pushed for the frontier
\* or, for the output of a single-output join, the record around the fork
\* that was joined (0: the token of the start event, counted on no record).
CountedOnOwnRecord ==
  \A fid \in DOMAIN frames :
    frames[fid].hist.last.node # NONE =>
      frames[fid].hist.last.record = frames[fid].hist.last.own

\* C37: every Join or End consumption is counted on the fork record of the
\* frontier the token belongs to (for a token that left a single-output
\* join, on the record of the enclosing fork), never on the record of a
\* sibling frontier of the same round.
ConsumptionCountedOnOwnRecord == []CountedOnOwnRecord

\* The activation fr is about to return Ok, at the top of a round with no
\* ready frontier and an End event visited.
ReturnsOkAtEmptyRound(fr) ==
  fr.pc = "loop" /\ fr.tokens_ready = <<>> /\ fr.last_visited_end # NONE

\* No Join was dispatched in the activation while no fork record was on the
\* stack.
NoTokenDropped ==
  \A fid \in DOMAIN frames : ReturnsOkAtEmptyRound(frames[fid]) => frames[fid].hist.lost = 0

\* No fork record is left on the stack.
NoRecordLeft ==
  \A fid \in DOMAIN frames : ReturnsOkAtEmptyRound(frames[fid]) => frames[fid].token_stack = <<>>

\* Every gateway tokens joined has fired.
JoinedGatewaysFired ==
  \A fid \in DOMAIN frames :
    ReturnsOkAtEmptyRound(frames[fid]) =>
      \A key \in DOMAIN arrived : key[1] = frames[fid].process => Count(fired, key) >= 1

\* C38: whenever execute returns Ok with an End event that is not Terminate
\* or Cancel, no token was lost: every token was consumed at an End event or
\* at a join that fired afterwards, token_stack is empty, and no token that
\* reached a join of several inputs with no fork record live was dropped.
NoTokenLostAtOk == [](NoTokenDropped /\ NoRecordLeft /\ JoinedGatewaysFired)

\* A fork all of whose tokens arrived at the gateway that fires: firing the
\* gateway leaves the stack as it was without the record of the fork,
\* which was the last record.
JoinRestoresDepth ==
  \A fid \in DOMAIN frames :
    (/\ fired' # fired
     /\ parked' = parked
     /\ fid \in DOMAIN frames'
     /\ frames[fid].pc = "consumed"
     /\ frames'[fid] # frames[fid]
     /\ Len(diagram[last_fire'.process].data[last_fire'.gateway].outputs) = 1
     /\ last_fire'.joined = [i \in 1..last_fire'.created |-> last_fire'.gateway]) =>
       /\ frames'[fid].token_stack
            = SubSeq(frames[fid].token_stack, 1, Len(frames[fid].token_stack) - 1)
       /\ frames'[fid].hist.stack
            = SubSeq(frames[fid].hist.stack, 1, Len(frames[fid].hist.stack) - 1)
       /\ frames'[fid].uncommitted = frames[fid].uncommitted

\* In the loop through a fork the stack never holds more records than
\* forks are nested, which is one, and it is empty whenever a token is on
\* the task that starts a pass of the loop.
LoopKeepsDepth ==
  sc.name = "loopfork" =>
    \A fid \in DOMAIN frames :
      /\ Len(frames[fid].token_stack) <= 1
      /\ frames[fid].hist.depth <= 1
      /\ (frames[fid].pc = "round" /\ frames[fid].active[1][1].cur = 2) =>
            frames[fid].token_stack = <<>>

HandlerMapIndexesCallbacks ==
  building.state = "Build" =>
    /\ building.handler.some
    /\ \A key \in DOMAIN building.handler.handler_map :
         LET index == building.handler.handler_map[key]
         IN /\ index >= 0
            /\ index < Len(building.handler.callbacks)
            /\ building.handler.callbacks[index + 1] = key[1]

\* build has taken the handler map: the Process built has none, and its
\* callbacks are the ones registered before build.
HandlerMapTaken ==
  (building.state = "Run" /\ doc # NoDocument) =>
    /\ ~building.handler.some
    /\ building.handler.callbacks = [i \in DOMAIN doc.d.regs |-> doc.d.regs[i][1]]
    /\ building.again \in {"", "Builder"}

\* A step taken after build (a registration or a second call of
\* Handler::build) leaves the handler as it is, and the second call of
\* build returns the Builder error.
LateCallsChangeNothing ==
  (building.state = "Run" /\ building' # building) =>
    /\ building'.handler = building.handler
    /\ building'.diagram = building.diagram
    /\ building'.state = "Run"
    /\ building'.again # building.again => building'.again = "Builder"

\* C40: after any registrations before build, every index the HandlerMap
\* holds under a kind is smaller than the number of stored callbacks and
\* the callback at that index is of that kind; once build has taken the
\* map, a further registration changes nothing and a second call of build
\* fails with a Builder error.
HandlerMapConsistentAndTakenOnce ==
  []HandlerMapIndexesCallbacks /\ []HandlerMapTaken /\ [][LateCallsChangeNothing]_vars

\* After a build of five registrations, two callbacks were registered too
\* late and Handler::build was called again.
RegisteredAndBuiltAfterBuild ==
  /\ building.state = "Run"
  /\ Len(doc.d.regs) = 5
  /\ building.late = 2
  /\ building.again = "Builder"
  /\ Len(building.handler.callbacks) = 5

====
